---- MODULE Spec2Model ----
(***************************************************************************)
(* GameAnno web client (App.js, AnnotationCanvas, AnnotationInfo) and the  *)
(* server: the annotation store, the undo/redo history, selection, image   *)
(* loading, the autosave timer and saving, the drawing of a rectangle on   *)
(* the canvas, and the upload, annotation, custom-tag and export endpoints.*)
(*                                                                         *)
(* Conventions.                                                            *)
(*  - A JavaScript value that may be null/undefined is a sequence of       *)
(*    length 0 (absent) or 1 (present): None, Some(v).                     *)
(*  - The id string `box_<n>` is represented by the number n; the format   *)
(*    `box_${n}` is injective in n.                                        *)
(*  - Free text (notes) is a natural number; 0 is the empty string ''.     *)
(*  - React state is read by a handler as of the last render; every        *)
(*    handler below is one event of the single UI thread.  What an async   *)
(*    handler does after an `await` is an action of its own.               *)
(*  - Time is counted in units of 1000 ms.                                 *)
(*  - A JavaScript number is an exact rational: a scale is a fraction      *)
(*    [num, den], and the pointer positions explored are those whose       *)
(*    image-space coordinates are whole numbers.                           *)
(*  - lastOp, pattern, nMut, issued, quiet, sentInQuiet, failedSince,      *)
(*    storeOf, response, pointer and emitted are history variables: they   *)
(*    record what happened and are read by no handler.                     *)
(***************************************************************************)
EXTENDS Integers, Sequences, FiniteSets, TLC

VARIABLES
  image,              \* App: useState(null), the filename of the loaded image
  annotations,        \* App: useState([]), the annotation store
  dialogOpen,         \* App: useState(false)
  currentBox,         \* App: useState(null), the draft handed over by the canvas
  hasUnsavedChanges,  \* App: useState(false), the dirty flag
  selectedAnnotation, \* App: useState(null), a copy of the selected record
  undoStack,          \* App: useState([])
  redoStack,          \* App: useState([])
  pending,            \* requests of handleImageSelect / handleImageUpload in flight
  annotationFiles,    \* server: annotations/current/<key>.json, per filename
  timers,             \* App: the autosave timers set and not yet fired or
                      \*      cleared, each with the time left until it fires
  saves,              \* POST /api/annotations/<filename> requests in flight, in
                      \*      the order they were sent
  lastOp,             \* history: the last event [op, id, field, alert]; alert
                      \*          tells whether it showed an alert to the user
  pattern,            \* history: progress of "mutation, undo, redo" in a row,
                      \*          with the store before and after the mutation
  nMut,               \* history: number of mutations so far
  issued,             \* history: the numbers n of the ids box_<n> given out by
                      \*          add since the current image was loaded, in order
  quiet,              \* history: time since the store was last changed,
                      \*          counted up to AUTOSAVE_DELAY
  sentInQuiet,        \* history: autosave requests sent since the store was
                      \*          last changed
  failedSince,        \* history: a save failed and the user has neither changed
                      \*          the store nor asked for a save since
  storeOf,            \* history: the image the annotation store was loaded for
  uploads,            \* server: the files in uploads/
  exports,            \* server: the export directories on disk, each with
                      \*         what it holds
  customTags,         \* server: data/custom_tags.json
  tagRequests,        \* server: the POST /api/custom-tags requests being
                      \*         handled, each with the tags it has loaded
  acked,              \* history: the types and tags of the requests that
                      \*          were answered with the list of tags (200)
  response,           \* history: the last request the server answered, with
                      \*          its answer
  container,          \* browser: offsetWidth and offsetHeight of the element
                      \*          'canvas-container'
  imageObj,           \* AnnotationCanvas: useImage(image.url), the decoded
                      \*          image with its size, undefined until loaded
  scale,              \* AnnotationCanvas: useState(1)
  stageSize,          \* AnnotationCanvas: useState({ width: 0, height: 0 })
  isDrawing,          \* AnnotationCanvas: useState(false)
  isResizing,         \* AnnotationCanvas: useState(false)
  startPoint,         \* AnnotationCanvas: useState({ x: 0, y: 0 })
  draftBox,           \* AnnotationCanvas: useState(null), its currentBox
  pointer,            \* history: the last pointer position of the current
                      \*          drag, in image space
  emitted             \* history: the number of drafts handed to
                      \*          onAnnotationComplete since the last drag began

server == <<uploads, exports, customTags, tagRequests, acked, response>>
canvas == <<container, imageObj, scale, stageSize, isDrawing, isResizing,
            startPoint, draftBox, pointer, emitted>>

vars == <<image, annotations, dialogOpen, currentBox, hasUnsavedChanges,
          selectedAnnotation, undoStack, redoStack, pending, annotationFiles,
          timers, saves, lastOp, pattern, nMut, issued, quiet, sentInQuiet,
          failedSince, storeOf, server, canvas>>

appUi == <<image, dialogOpen, currentBox, selectedAnnotation>>
net == <<pending, annotationFiles, saves>>

----------------------------------------------------------------------------
(* Bounds of the model *)

MaxMutations == 2     \* mutations explored by Spec
MaxEdits == 2         \* mutations explored by SpecEdit
MaxIdMutations == 5   \* adds and deletes explored by SpecIds
CapMutations == 52    \* mutations explored by SpecCap (more than MAX_STACK_SIZE)
MaxPending == 1       \* requests in flight at once
MaxSaves == 1         \* save requests in flight at once
MaxSaveMutations == 2 \* mutations explored by the specifications with saves
MaxReloadEdits == 1   \* mutations explored by SpecReload
MaxExports == 1       \* export directories left on disk
MaxDrafts == 1        \* rectangles submitted in SpecCanvas
MaxForms == 2         \* metadata forms saved in SpecForm
MaxPointerEdits == 4  \* mutations explored by SpecPointer
MaxBoxEdits == 5      \* mutations explored by SpecBoxes
MaxCrossEdits == 1    \* deletions explored by SpecCross
MaxLiveEdits == 2     \* mutations explored by SpecLive
MaxTagRequests == 2   \* custom-tag requests handled at once in SpecTags
MaxRacing == 2        \* image requests in flight at once in SpecRace

----------------------------------------------------------------------------
(* Values *)

None == <<>>
Some(v) == <<v>>

NoImage == "null"

\* Names of the files the user uploads in the session.
UploadNames == {"a"}

\* ImageBrowser fetches the list of images once, when it is mounted: the
\* images offered for selection are the ones the server held at start-up.
BrowserImages == {"b"}

\* A second image the server holds at start-up in SpecRace, never annotated:
\* its annotation file is the empty list the upload endpoint created.
MoreImages == {"d"}

Filenames == UploadNames \cup BrowserImages \cup MoreImages

\* Other names a request to the server can carry: a name with an extension,
\* with and without the prefix 'resized-'.
RequestNames == {"resized-c.png", "c.png"}

\* filename.replace(/\.[^/.]+$/, ""): the name without its extension.  The
\* names of the session's images have none.
withoutExtension(filename) ==
  CASE filename = "resized-c.png" -> "resized-c"
    [] filename = "c.png" -> "c"
    [] OTHER -> filename

\* filename.startsWith('resized-')
startsWithResized(filename) == filename \in {"resized-c.png", "resized-c"}

\* filename.replace('resized-', ''), of a name that starts with 'resized-'
withoutResized(filename) ==
  CASE filename = "resized-c.png" -> "c.png"
    [] filename = "resized-c" -> "c"
    [] OTHER -> filename

\* The file multer stores an upload in: `file-${safeName}`
rawName(originalname) ==
  CASE originalname = "a" -> "file-a"
    [] OTHER -> originalname

\* The names an annotation file can have in annotations/current, without
\* the '.json'.
Keys == { withoutExtension(f) : f \in Filenames \cup RequestNames }
          \cup { withoutExtension(withoutResized(f)) : f \in RequestNames }
          \cup { rawName(f) : f \in UploadNames }

MAX_STACK_SIZE == 50

\* setTimeout(saveAnnotations, 2000)
AUTOSAVE_DELAY == 2

Mutations == {"add", "update", "delete"}

\* The events lastOp tells apart, besides the mutations
Observed == {"loaded", "load404", "loadFailed", "autosave", "save",
             "saveDone", "saveFailed", "dropRefused", "undoEmpty", "redoEmpty",
             "pointerUp", "pointerDown", "pointerMove"}

\* a || b on values that are absent or arrays (an array, also the empty one,
\* is truthy)
Either(a, b) == IF a # None THEN a ELSE b

\* x || [] : an absent value becomes the empty array, an array is kept.
OrEmpty(o) == IF o = None THEN <<>> ELSE o[1]

\* x || false
OrFalse(o) == IF o = None THEN FALSE ELSE o[1]

\* x || '' : '' itself is falsy and gives ''
OrEmptyText(o) == IF o = None THEN 0 ELSE o[1]

\* Drafts the canvas emits (width > 5 and height > 5).
Boxes == { [x |-> 0, y |-> 0, width |-> 10, height |-> 20] }

\* What the metadata form submits (its Save button needs a category, and an
\* interaction type when interactive).
Metas == { [interactionTypes |-> <<>>, categories |-> <<"Door">>,
            is_interactive |-> FALSE, notes |-> 0] }

\* Values the information panel can set.
TagLists == { <<"open">> }
CategoryLists == { <<"Door", "Key">> }
Checked == { TRUE }
NoteTexts == { 1 }
Positions == { 20 }
Sizes == { 30 }

\* Drafts of two sizes, and the sizes of a resized node whose scale the
\* Transformer has left positive or negative
TwoBoxes == { [x |-> 0, y |-> 0, width |-> 10, height |-> 20],
              [x |-> 40, y |-> 40, width |-> 60, height |-> 50] }
SignedSizes == { -30, 30 }

\* A record as the server's save endpoint writes it.  In a record of an
\* annotation file each of the keys interaction_type, interactionTypes,
\* categories and category may be missing (None).
FileRecord(id, coords, cats, inter, its, notes) ==
  [bounding_box_id |-> id, coordinates |-> coords, categories |-> Some(cats),
   is_interactive |-> inter, interaction_type |-> Some(its), notes |-> notes,
   interactionTypes |-> None, category |-> None]

\* The annotation file the server holds for image "b" at start-up: saved by
\* an earlier session in which one annotation was added.
InitFiles == { << FileRecord(1, <<20, 30, 30, 50>>, <<"Door">>, FALSE, <<>>, 0) >> }

\* Records of annotation files written by other versions of the program:
\* with the singular keys interaction_type and category (the README's
\* format), with the plural keys, or with a mixture.
LegacyRecords ==
  { [bounding_box_id |-> 1, coordinates |-> <<20, 30, 30, 50>>,
     is_interactive |-> TRUE, notes |-> 0,
     interaction_type |-> it, interactionTypes |-> its,
     categories |-> cats, category |-> cat] :
      it \in {None, Some(<<>>), Some(<<"open">>)},
      its \in {None, Some(<<"use">>)},
      cats \in {None, Some(<<>>), Some(<<"Key">>)},
      cat \in {None, Some("Door")} }

\* What the server may hold for image "b" when its annotations were not
\* written by this version: no annotation file (an image stored by a server
\* whose upload created none), or a file with one such record.
LegacyFiles == {None} \cup { Some(<<r>>) : r \in LegacyRecords }

----------------------------------------------------------------------------
(* Pure helpers of App.js *)

\* Mutant of pushBounded: slice(0, MAX_STACK_SIZE), which keeps the oldest.
pushBounded_keepsOldest(stack, x) ==
  LET newStack == Append(stack, x)
  IN IF Len(newStack) > MAX_STACK_SIZE
       THEN SubSeq(newStack, 1, MAX_STACK_SIZE)
       ELSE newStack

\* [...stack, x].slice(-MAX_STACK_SIZE)
pushBounded(stack, x) ==
  LET newStack == Append(stack, x)
  IN IF Len(newStack) > MAX_STACK_SIZE
       THEN SubSeq(newStack, Len(newStack) - MAX_STACK_SIZE + 1, Len(newStack))
       ELSE newStack

\* stack.slice(0, -1)
dropLast(stack) == SubSeq(stack, 1, Len(stack) - 1)

\* Mutant of prevStateOf: undoStack[0], the oldest snapshot.
prevStateOf_oldest(stack) == stack[1]

\* undoStack[undoStack.length - 1]
prevStateOf(stack) == stack[Len(stack)]

\* redoStack[redoStack.length - 1]
nextStateOf(stack) == stack[Len(stack)]

\* prev.filter(ann => ann.bounding_box_id !== id)
filterOut(store, id) == SelectSeq(store, LAMBDA ann : ann.bounding_box_id # id)

\* annotations.find(a => a.bounding_box_id === id): the first match, if any
findById(store, id) ==
  LET hits == { i \in DOMAIN store : store[i].bounding_box_id = id }
  IN IF hits = {} THEN None
     ELSE Some(store[CHOOSE i \in hits : \A j \in hits : i <= j])

\* Mutant of migrateAnnotation: interactionTypes is taken from the legacy key
\* only, interaction_type || [].
migrateAnnotation_legacyKeyOnly(r) ==
  [bounding_box_id |-> r.bounding_box_id,
   coordinates |-> r.coordinates,
   is_interactive |-> r.is_interactive,
   notes |-> r.notes,
   interactionTypes |-> OrEmpty(r.interaction_type),
   categories |-> OrEmpty(r.categories),
   interaction_type |-> None,
   category |-> None]

\* migrateAnnotation, applied to a record of an annotation file.  The spread
\* copies every key; interaction_type and category are then set to undefined.
migrateAnnotation(r) ==
  [bounding_box_id |-> r.bounding_box_id,
   coordinates |-> r.coordinates,
   is_interactive |-> r.is_interactive,
   notes |-> r.notes,
   interactionTypes |-> OrEmpty(Either(r.interaction_type, r.interactionTypes)),
   categories |-> OrEmpty(r.categories),
   interaction_type |-> None,
   category |-> None]

migrateAll(file) == [i \in DOMAIN file |-> migrateAnnotation(file[i])]

\* A record of the store as an argument of migrateAnnotation: the same
\* object, whose keys interactionTypes and categories are present.
asArgument(annotation) ==
  [annotation EXCEPT !.interactionTypes = Some(@), !.categories = Some(@)]

----------------------------------------------------------------------------
(* History variables *)

\* A JavaScript number that is a quotient: num / den, with den > 0
Frac(n, d) == [num |-> n, den |-> d]

\* a <= b and a = b on quotients
FracLeq(a, b) == a.num * b.den <= b.num * a.den
FracEq(a, b) == a.num * b.den = b.num * a.den

\* No request has been answered yet.
NoResponse == [endpoint |-> "none", filename |-> "", status |-> 0,
               valid |-> TRUE, annotations |-> None, artifacts |-> {}]

\* The size of the element 'canvas-container' when the page is opened
InitialContainer == [width |-> 400, height |-> 300]

NoPattern == [phase |-> "none", pre |-> <<>>, post |-> <<>>]

\* The history of a handler: the event and the progress of "mutation, undo,
\* redo".  To be stated after the conjunct that sets annotations'.
Noted(op, id, field, alert) ==
  /\ lastOp' = IF op \in Mutations \cup Observed
                THEN [op |-> op, id |-> id, field |-> field, alert |-> alert]
                ELSE [op |-> "other", id |-> 0, field |-> "", alert |-> alert]
  /\ pattern' =
       CASE op \in Mutations ->
              [phase |-> "mutated", pre |-> annotations, post |-> annotations']
         [] op = "undo" /\ pattern.phase = "mutated" ->
              [pattern EXCEPT !.phase = "undone"]
         [] op = "redo" /\ pattern.phase = "undone" ->
              [pattern EXCEPT !.phase = "redone"]
         [] op \in {"undoEmpty", "redoEmpty"} -> pattern
         [] OTHER -> NoPattern

\* The history of a handler of App or of an annotation endpoint it calls:
\* they touch neither the state of the canvas nor the uploads, the exports
\* and the custom tags of the server.
Note(op, id, field, alert) ==
  /\ UNCHANGED <<server, canvas>>
  /\ Noted(op, id, field, alert)

Record(op, id, field) == Note(op, id, field, FALSE)

Other == Record("other", 0, "")

Mutated == nMut' = nMut + 1

\* The state of App and its history, which neither an endpoint of the server
\* nor a handler that only sets state of the canvas touches
client == <<image, annotations, dialogOpen, currentBox, hasUnsavedChanges,
            selectedAnnotation, undoStack, redoStack, pending, timers, saves,
            lastOp, pattern, nMut, issued, quiet, sentInQuiet, failedSince,
            storeOf>>

\* What no handler of the autosave machinery touches
auto == <<timers, quiet, sentInQuiet, failedSince, storeOf>>

----------------------------------------------------------------------------
InitFor(images, browserFile) ==
  /\ image = NoImage
  /\ annotations = <<>>
  /\ dialogOpen = FALSE
  /\ currentBox = None
  /\ hasUnsavedChanges = FALSE
  /\ selectedAnnotation = None
  /\ undoStack = <<>>
  /\ redoStack = <<>>
  /\ pending = {}
  /\ annotationFiles = [k \in Keys |-> IF k \in BrowserImages THEN browserFile
                                       ELSE IF k \in images THEN Some(<<>>)
                                       ELSE None]
  /\ timers = <<>>
  /\ saves = <<>>
  /\ lastOp = [op |-> "other", id |-> 0, field |-> "", alert |-> FALSE]
  /\ pattern = NoPattern
  /\ nMut = 0
  /\ issued = <<>>
  /\ quiet = 0
  /\ sentInQuiet = 0
  /\ failedSince = FALSE
  /\ storeOf = NoImage
  /\ uploads = images
  /\ exports = <<>>
  /\ customTags = [categories |-> <<>>, interaction_types |-> <<>>]
  /\ tagRequests = <<>>
  /\ acked = {}
  /\ response = NoResponse
  /\ container = InitialContainer
  /\ imageObj = None
  /\ scale = Frac(1, 1)
  /\ stageSize = [width |-> Frac(0, 1), height |-> Frac(0, 1)]
  /\ isDrawing = FALSE
  /\ isResizing = FALSE
  /\ startPoint = [x |-> 0, y |-> 0]
  /\ draftBox = None
  /\ pointer = None
  /\ emitted = 0

InitWith(browserFile) == InitFor(BrowserImages, browserFile)

\* The client has just been opened; the server holds image "b" and the
\* annotation file an earlier session of this version saved for it.
Init == \E file \in InitFiles : InitWith(Some(file))

\* The same, with image "b" left by another version of the program.
InitLegacy == \E browserFile \in LegacyFiles : InitWith(browserFile)

\* The same as Init, with the images "b" and "d" on the server.
InitRace ==
  \E file \in InitFiles : InitFor(BrowserImages \cup MoreImages, Some(file))

----------------------------------------------------------------------------
(* Autosave effect *)

\* Mutant of autosaveEffect: the timer is set whether or not the dirty flag
\* is set.
autosaveEffect_always ==
  timers' = <<AUTOSAVE_DELAY>>

\* Mutant of autosaveEffect: the effect returns no cleanup, so the timer of
\* the previous run stays set.
autosaveEffect_noCleanup ==
  timers' = IF hasUnsavedChanges' THEN Append(timers, AUTOSAVE_DELAY) ELSE timers

\* useEffect(..., [annotations, hasUnsavedChanges, image]): React runs the
\* effect after every render in which one of the three changed.  The cleanup
\* of the previous run clears its timer; the new run sets a timer when the
\* dirty flag is set.  To be stated after the conjunct that sets
\* hasUnsavedChanges'.
autosaveEffect ==
  timers' = IF hasUnsavedChanges' THEN <<AUTOSAVE_DELAY>> ELSE <<>>

\* The store was changed by the user: a quiet period starts.
StoreChanged ==
  /\ autosaveEffect
  /\ quiet' = 0
  /\ sentInQuiet' = 0
  /\ failedSince' = FALSE
  /\ UNCHANGED storeOf

\* The store was replaced by the annotations of image f.
StoreLoaded(f) ==
  /\ autosaveEffect
  /\ quiet' = 0
  /\ sentInQuiet' = 0
  /\ failedSince' = FALSE
  /\ storeOf' = f

----------------------------------------------------------------------------
(* History manager *)

\* Mutant of addToUndoStack: the redo stack is not cleared.
addToUndoStack_keepsRedo(prevAnnotations) ==
  /\ undoStack' = pushBounded(undoStack, prevAnnotations)
  /\ redoStack' = redoStack

\* addToUndoStack(prevAnnotations)
addToUndoStack(prevAnnotations) ==
  /\ undoStack' = pushBounded(undoStack, prevAnnotations)
  /\ redoStack' = <<>>

\* if (undoStack.length === 0) return; and the same of handleRedo: the
\* handler returns before it sets any state.
emptyStack(op) ==
  /\ Record(op, 0, "")
  /\ UNCHANGED <<annotations, hasUnsavedChanges, undoStack, redoStack, appUi,
                 net, nMut, issued, auto>>

\* Mutant of handleUndo: the restored snapshot, not the current store, is
\* pushed onto the redo stack.
handleUndo_pushesRestored ==
  IF Len(undoStack) = 0
    THEN emptyStack("undoEmpty")
    ELSE /\ LET prevState == prevStateOf(undoStack)
            IN /\ redoStack' = pushBounded(redoStack, prevState)
               /\ annotations' = prevState
               /\ hasUnsavedChanges' = TRUE
               /\ undoStack' = dropLast(undoStack)
         /\ Record("undo", 0, "")
         /\ StoreChanged
         /\ UNCHANGED <<appUi, net, nMut, issued>>

\* Mutant of handleUndo: the test of the empty stack comes after
\* setHasUnsavedChanges(true).
handleUndo_marksDirty ==
  IF Len(undoStack) = 0
    THEN /\ hasUnsavedChanges' = TRUE
         /\ Record("undoEmpty", 0, "")
         /\ StoreChanged
         /\ UNCHANGED <<annotations, undoStack, redoStack, appUi, net, nMut,
                        issued>>
    ELSE /\ LET prevState == prevStateOf(undoStack)
            IN /\ redoStack' = pushBounded(redoStack, annotations)
               /\ annotations' = prevState
               /\ hasUnsavedChanges' = TRUE
               /\ undoStack' = dropLast(undoStack)
         /\ Record("undo", 0, "")
         /\ StoreChanged
         /\ UNCHANGED <<appUi, net, nMut, issued>>

\* handleUndo: Ctrl+Z, at any time
handleUndo ==
  IF Len(undoStack) = 0
    THEN emptyStack("undoEmpty")
    ELSE /\ LET prevState == prevStateOf(undoStack)
            IN /\ redoStack' = pushBounded(redoStack, annotations)
               /\ annotations' = prevState
               /\ hasUnsavedChanges' = TRUE
               /\ undoStack' = dropLast(undoStack)
         /\ Record("undo", 0, "")
         /\ StoreChanged
         /\ UNCHANGED <<appUi, net, nMut, issued>>

\* Mutant of handleRedo: setHasUnsavedChanges(true) is left out.
handleRedo_keepsFlag ==
  IF Len(redoStack) = 0
    THEN emptyStack("redoEmpty")
    ELSE /\ LET nextState == nextStateOf(redoStack)
            IN /\ undoStack' = pushBounded(undoStack, annotations)
               /\ annotations' = nextState
               /\ hasUnsavedChanges' = hasUnsavedChanges
               /\ redoStack' = dropLast(redoStack)
         /\ Record("redo", 0, "")
         /\ StoreChanged
         /\ UNCHANGED <<appUi, net, nMut, issued>>

\* handleRedo: Ctrl+Shift+Z, at any time
handleRedo ==
  IF Len(redoStack) = 0
    THEN emptyStack("redoEmpty")
    ELSE /\ LET nextState == nextStateOf(redoStack)
            IN /\ undoStack' = pushBounded(undoStack, annotations)
               /\ annotations' = nextState
               /\ hasUnsavedChanges' = TRUE
               /\ redoStack' = dropLast(redoStack)
         /\ Record("redo", 0, "")
         /\ StoreChanged
         /\ UNCHANGED <<appUi, net, nMut, issued>>

----------------------------------------------------------------------------
(* Annotation store *)

\* The canvas is rendered while an image is loaded; the metadata form is a
\* modal dialog, so no pointer event reaches the rest of the page while it
\* is open.
CanvasUsable == image # NoImage /\ ~dialogOpen

\* handleAnnotationSelect, called by the canvas on pointer-down: with the
\* first record that has the id of the rectangle hit, or with null on the
\* background or the image.
handleAnnotationSelect(annotation) ==
  /\ CanvasUsable
  /\ selectedAnnotation' = annotation
  /\ Other
  /\ UNCHANGED <<image, annotations, dialogOpen, currentBox, hasUnsavedChanges,
                 undoStack, redoStack, net, nMut, issued, auto>>

\* handleAnnotationComplete(box), called by the canvas on the pointer-up that
\* ends a drag.  The pointer-down that started the drag deselected
\* (onAnnotationSelect(null)) and nothing selects during a drag.
handleAnnotationComplete(box) ==
  /\ CanvasUsable
  /\ selectedAnnotation = None
  /\ currentBox' = Some(box)
  /\ dialogOpen' = TRUE
  /\ Other
  /\ UNCHANGED <<image, annotations, hasUnsavedChanges, selectedAnnotation,
                 undoStack, redoStack, net, nMut, issued, auto>>

\* onClose of the metadata form: Cancel, Escape or a click on the backdrop
dialogClose ==
  /\ dialogOpen
  /\ dialogOpen' = FALSE
  /\ Other
  /\ UNCHANGED <<image, annotations, currentBox, hasUnsavedChanges,
                 selectedAnnotation, undoStack, redoStack, net, nMut, issued,
                 auto>>

\* handleAnnotationSave(metadata): the Save button of the metadata form
handleAnnotationSave(metadata) ==
  /\ dialogOpen
  /\ currentBox # None
  /\ addToUndoStack(annotations)
  /\ LET box == currentBox[1]
         newAnnotation ==
           [bounding_box_id |-> Len(annotations) + 1,
            interactionTypes |-> OrEmpty(Some(metadata.interactionTypes)),
            categories |-> OrEmpty(Some(metadata.categories)),
            is_interactive |-> OrFalse(Some(metadata.is_interactive)),
            notes |-> OrEmptyText(Some(metadata.notes)),
            coordinates |-> <<box.x, box.y, box.x + box.width, box.y + box.height>>,
            interaction_type |-> None,
            category |-> None]
     IN /\ annotations' = Append(annotations, newAnnotation)
        /\ Record("add", newAnnotation.bounding_box_id, "")
        /\ issued' = Append(issued, newAnnotation.bounding_box_id)
  /\ dialogOpen' = FALSE
  /\ currentBox' = None
  /\ hasUnsavedChanges' = TRUE
  /\ Mutated
  /\ StoreChanged
  /\ UNCHANGED <<image, selectedAnnotation, net>>

\* What the user can have entered in the metadata form when they click one
\* of its buttons: each field has its own setter and none constrains another.
Forms == [interactionTypes : {<<>>, <<"open">>},
          categories : {<<>>, <<"Door">>},
          is_interactive : BOOLEAN,
          notes : {0, 1}]

\* Mutant of saveDisabled: the interaction types are not looked at.
saveDisabled_categoriesOnly(form) ==
  Len(form.categories) = 0

\* disabled={categories.length === 0 ||
\*           (interactionTypes.length === 0 && isInteractive)}
saveDisabled(form) ==
  \/ Len(form.categories) = 0
  \/ Len(form.interactionTypes) = 0 /\ form.is_interactive

\* AnnotationDialog.handleSave: a click on the Save button of the form, which
\* is possible while the button is enabled; onSave is handleAnnotationSave.
\* resetForm empties the form for the next rectangle.
AnnotationDialogSave(form) ==
  /\ ~saveDisabled(form)
  /\ handleAnnotationSave(form)

\* handleAnnotationDelete(annotation): the Delete button of the information
\* panel and the Delete/Backspace key, both with the selected annotation
handleAnnotationDelete ==
  /\ selectedAnnotation # None
  /\ LET annotation == selectedAnnotation[1]
     IN /\ addToUndoStack(annotations)
        /\ annotations' = filterOut(annotations, annotation.bounding_box_id)
        /\ Record("delete", annotation.bounding_box_id, "")
  /\ selectedAnnotation' = None
  /\ hasUnsavedChanges' = TRUE
  /\ Mutated
  /\ StoreChanged
  /\ UNCHANGED <<image, dialogOpen, currentBox, net, issued>>

\* handleAnnotationUpdate(updatedAnnotation)
handleAnnotationUpdate(updatedAnnotation) ==
  /\ addToUndoStack(annotations)
  /\ annotations' =
       [i \in DOMAIN annotations |->
          IF annotations[i].bounding_box_id = updatedAnnotation.bounding_box_id
            THEN [updatedAnnotation EXCEPT
                    !.interactionTypes = OrEmpty(Some(@)),
                    !.categories = OrEmpty(Some(@))]
            ELSE annotations[i]]
  /\ hasUnsavedChanges' = TRUE
  /\ Mutated
  /\ StoreChanged
  /\ UNCHANGED <<appUi, net, issued>>


----------------------------------------------------------------------------
(* Callers of handleAnnotationUpdate *)

\* The information panel shows the selected annotation; it is behind the
\* modal dialog while that is open.
InfoUsable == selectedAnnotation # None /\ ~dialogOpen

\* AnnotationInfo.handleInteractionTypesChange
handleInteractionTypesChange(value) ==
  /\ InfoUsable
  /\ handleAnnotationUpdate([selectedAnnotation[1] EXCEPT !.interactionTypes = value])
  /\ Record("update", selectedAnnotation[1].bounding_box_id, "interactionTypes")

\* AnnotationInfo.handleCategoriesChange
handleCategoriesChange(value) ==
  /\ InfoUsable
  /\ handleAnnotationUpdate([selectedAnnotation[1] EXCEPT !.categories = value])
  /\ Record("update", selectedAnnotation[1].bounding_box_id, "categories")

\* AnnotationInfo.handleIsInteractiveChange
handleIsInteractiveChange(checked) ==
  /\ InfoUsable
  /\ handleAnnotationUpdate([selectedAnnotation[1] EXCEPT !.is_interactive = checked])
  /\ Record("update", selectedAnnotation[1].bounding_box_id, "is_interactive")

\* AnnotationInfo.handleNotesChange
handleNotesChange(value) ==
  /\ InfoUsable
  /\ handleAnnotationUpdate([selectedAnnotation[1] EXCEPT !.notes = value])
  /\ Record("update", selectedAnnotation[1].bounding_box_id, "notes")

\* The rectangles that can be dragged or resized: draggable={isSelected} and
\* ref={isSelected ? selectedRectRef : null}, where isSelected compares the
\* id of the record with the id of the selected annotation.  A node is the
\* index of its record in the store.
SelectedNodes ==
  IF CanvasUsable /\ selectedAnnotation # None
    THEN { i \in DOMAIN annotations :
             annotations[i].bounding_box_id = selectedAnnotation[1].bounding_box_id }
    ELSE {}

\* AnnotationCanvas.handleDragEnd: the node was dropped at (newX, newY), in
\* image coordinates.  The record is the first one with the id of the node.
handleDragEnd(node, newX, newY) ==
  /\ node \in SelectedNodes
  /\ LET annotation == findById(annotations, annotations[node].bounding_box_id)[1]
         width == annotation.coordinates[3] - annotation.coordinates[1]
         height == annotation.coordinates[4] - annotation.coordinates[2]
     IN handleAnnotationUpdate(
          [annotation EXCEPT !.coordinates = <<newX, newY, newX + width, newY + height>>])
  /\ Record("update", annotations[node].bounding_box_id, "coordinates")

\* AnnotationCanvas.handleTransformStart
handleTransformStart ==
  /\ SelectedNodes # {}
  /\ isResizing' = TRUE
  /\ UNCHANGED <<client, annotationFiles, server, container, imageObj, scale,
                 stageSize, isDrawing, startPoint, draftBox, pointer, emitted>>

\* AnnotationCanvas.handleTransformEnd: the node was resized; it is at
\* (newX, newY) and its width and height times its scale are scaledWidth and
\* scaledHeight, in image coordinates.  The record is the first one with the
\* id of the node.
handleTransformEnd(node, newX, newY, scaledWidth, scaledHeight) ==
  /\ node \in SelectedNodes
  /\ isResizing' = FALSE
  /\ LET annotation == findById(annotations, annotations[node].bounding_box_id)[1]
         newWidth == IF scaledWidth < 0 THEN -scaledWidth ELSE scaledWidth
         newHeight == IF scaledHeight < 0 THEN -scaledHeight ELSE scaledHeight
     IN handleAnnotationUpdate(
          [annotation EXCEPT
             !.coordinates = <<newX, newY, newX + newWidth, newY + newHeight>>])
  /\ Noted("update", annotations[node].bounding_box_id, "coordinates", FALSE)
  /\ UNCHANGED <<server, container, imageObj, scale, stageSize, isDrawing,
                 startPoint, draftBox, pointer, emitted>>

----------------------------------------------------------------------------
(* Loading an image *)

\* The 'Load New Image' button: setImage(null)
loadNewImage ==
  /\ ~dialogOpen
  /\ image # NoImage
  /\ image' = NoImage
  /\ Other
  /\ UNCHANGED <<annotations, dialogOpen, currentBox, hasUnsavedChanges,
                 selectedAnnotation, undoStack, redoStack, net, nMut, issued>>
  /\ autosaveEffect
  /\ UNCHANGED <<quiet, sentInQuiet, failedSince, storeOf>>

\* The images whose requests are in flight
InFlight == { p.filename : p \in pending }

\* handleImageSelect(selectedImage) up to its await: a click on an entry of
\* the image browser, which lists the images the server held when the page
\* was opened, sends GET /api/annotations/<filename>.  The field after of a
\* request is history, read by no handler: the images whose requests were
\* in flight when it was sent.
handleImageSelect(f) ==
  /\ ~dialogOpen
  /\ f \in uploads
  /\ pending' = pending \cup {[kind |-> "select", filename |-> f,
                                after |-> InFlight]}
  /\ Other
  /\ UNCHANGED <<image, annotations, dialogOpen, currentBox, hasUnsavedChanges,
                 selectedAnnotation, undoStack, redoStack, annotationFiles,
                 saves, nMut, issued, auto>>

\* The key GET and POST /api/annotations/:filename address first:
\* `${baseFilename}.json`
baseFilename(filename) == withoutExtension(filename)

\* The key GET /api/annotations/:filename tries second:
\* `${originalBasename}.json`
originalBasename(filename) == withoutExtension(withoutResized(filename))

\* GET /api/annotations/:filename on the server: the annotations of the file
\* under the exact key; when there is none (ENOENT) and the name starts with
\* 'resized-', the ones of the file under the key without the prefix; or 404
\* (None) when there is none either
getAnnotations(f) ==
  IF annotationFiles[baseFilename(f)] # None
    THEN annotationFiles[baseFilename(f)]
    ELSE IF startsWithResized(f)
           THEN annotationFiles[originalBasename(f)]
           ELSE None

\* handleImageSelect after its await.  ok = FALSE is a request that failed
\* on the way; a 404 fails the same way (axios throws), and the catch block
\* shows the alert 'Failed to load image'.
handleImageSelectResponse(p, ok) ==
  /\ p \in pending
  /\ p.kind = "select"
  /\ pending' = pending \ {p}
  /\ IF ok /\ getAnnotations(p.filename) # None
       THEN /\ annotations' = migrateAll(getAnnotations(p.filename)[1])
            /\ image' = p.filename
            /\ hasUnsavedChanges' = FALSE
            /\ Record("loaded", 0, p.filename)
            /\ issued' = <<>>
            /\ StoreLoaded(p.filename)
       ELSE /\ Note(IF ok THEN "load404" ELSE "loadFailed", 0, p.filename, TRUE)
            /\ UNCHANGED <<annotations, image, hasUnsavedChanges, issued, auto>>
  /\ UNCHANGED <<dialogOpen, currentBox, selectedAnnotation, undoStack, redoStack,
                 annotationFiles, saves, nMut>>

\* handleImageUpload(file) up to its first await: POST /api/upload.  The
\* upload form is shown while no image is loaded.
handleImageUpload(f) ==
  /\ ~dialogOpen
  /\ image = NoImage
  /\ pending' = pending \cup {[kind |-> "upload", filename |-> f,
                                after |-> InFlight]}
  /\ Other
  /\ UNCHANGED <<image, annotations, dialogOpen, currentBox, hasUnsavedChanges,
                 selectedAnnotation, undoStack, redoStack, annotationFiles,
                 saves, nMut, issued, auto>>

\* POST /api/upload on the server creates an empty annotation file unless
\* the image already has one; handleImageUpload then sends the GET for the
\* annotations.  ok = FALSE: the upload failed (alert, nothing changes).
handleImageUploadResponse(p, ok) ==
  /\ p \in pending
  /\ p.kind = "upload"
  /\ IF ok
       THEN /\ annotationFiles' =
                 IF annotationFiles[p.filename] = None
                   THEN [annotationFiles EXCEPT ![p.filename] = Some(<<>>)]
                   ELSE annotationFiles
            /\ pending' = (pending \ {p}) \cup {[kind |-> "uploadGet", filename |-> p.filename,
                            after |-> p.after]}
            /\ Other
       ELSE /\ pending' = pending \ {p}
            /\ Note("other", 0, "", TRUE)
            /\ UNCHANGED annotationFiles
  /\ UNCHANGED <<image, annotations, dialogOpen, currentBox, hasUnsavedChanges,
                 selectedAnnotation, undoStack, redoStack, saves, nMut, issued,
                 auto>>

\* handleImageUpload after its second await: a GET that fails, by a 404 or
\* on the way, gives the empty store and does not block the image.
handleImageUploadAnnotations(p, ok) ==
  /\ p \in pending
  /\ p.kind = "uploadGet"
  /\ pending' = pending \ {p}
  /\ annotations' = IF ok /\ getAnnotations(p.filename) # None
                      THEN migrateAll(getAnnotations(p.filename)[1])
                      ELSE <<>>
  /\ image' = p.filename
  /\ hasUnsavedChanges' = FALSE
  /\ Record(IF ok /\ getAnnotations(p.filename) = None THEN "load404" ELSE "loaded",
            0, p.filename)
  /\ issued' = <<>>
  /\ StoreLoaded(p.filename)
  /\ UNCHANGED <<dialogOpen, currentBox, selectedAnnotation, undoStack, redoStack,
                 annotationFiles, saves, nMut>>

----------------------------------------------------------------------------
(* Saving *)

\* Mutant of convertAnnotationForServer: the interaction types are not
\* copied to the key the server reads.
convertAnnotationForServer_dropsTypes(annotation) ==
  [bounding_box_id |-> annotation.bounding_box_id,
   coordinates |-> annotation.coordinates,
   is_interactive |-> annotation.is_interactive,
   notes |-> annotation.notes,
   categories |-> Some(annotation.categories),
   category |-> annotation.category,
   interaction_type |-> None,
   interactionTypes |-> None]

\* convertAnnotationForServer: the spread copies every key, interaction_type
\* gets the interaction types and interactionTypes is set to undefined.
convertAnnotationForServer(annotation) ==
  [bounding_box_id |-> annotation.bounding_box_id,
   coordinates |-> annotation.coordinates,
   is_interactive |-> annotation.is_interactive,
   notes |-> annotation.notes,
   categories |-> Some(annotation.categories),
   category |-> annotation.category,
   interaction_type |-> Some(annotation.interactionTypes),
   interactionTypes |-> None]

\* annotations.map(convertAnnotationForServer)
serverAnnotations(store) ==
  [i \in DOMAIN store |-> convertAnnotationForServer(store[i])]

\* POST /api/annotations/:filename on the server: the record written for
\* one annotation of the request
storedAnnotation(anno) ==
  FileRecord(anno.bounding_box_id, anno.coordinates, OrEmpty(anno.categories),
             OrFalse(Some(anno.is_interactive)), OrEmpty(anno.interaction_type),
             OrEmptyText(Some(anno.notes)))

storedAnnotations(body) == [i \in DOMAIN body |-> storedAnnotation(body[i])]

\* axios.post(`/api/annotations/${image.filename}`, {annotations})
SaveRequest(kind) ==
  [kind |-> kind, filename |-> image, body |-> serverAnnotations(annotations),
   status |-> "sent"]

\* The sequence without its k-th element
RemoveAt(seq, k) == SubSeq(seq, 1, k - 1) \o SubSeq(seq, k + 1, Len(seq))

\* One unit of time passes.  A timer that is due fires before more time
\* passes; events that are due at the same instant come in any order.
tick ==
  /\ \A i \in DOMAIN timers : timers[i] > 0
  /\ timers # <<>> \/ quiet < AUTOSAVE_DELAY
  /\ timers' = [i \in DOMAIN timers |-> timers[i] - 1]
  /\ quiet' = IF quiet < AUTOSAVE_DELAY THEN quiet + 1 ELSE quiet
  /\ UNCHANGED <<image, annotations, dialogOpen, currentBox, hasUnsavedChanges,
                 selectedAnnotation, undoStack, redoStack, net, lastOp, pattern,
                 nMut, issued, sentInQuiet, failedSince, storeOf, server,
                 canvas>>

\* saveAnnotations up to its await: the autosave timer fires.  The function
\* reads image, hasUnsavedChanges and annotations as of the run of the effect
\* that set the timer, which are the current ones: a change of any of them
\* runs the effect again and clears the timer.
saveAnnotations ==
  /\ Len(saves) < MaxSaves
  /\ \E i \in DOMAIN timers :
       /\ timers[i] = 0
       /\ timers' = RemoveAt(timers, i)
  /\ IF image = NoImage \/ ~hasUnsavedChanges
       THEN /\ Other
            /\ UNCHANGED <<saves, sentInQuiet>>
       ELSE /\ saves' = Append(saves, SaveRequest("auto"))
            /\ sentInQuiet' = sentInQuiet + 1
            /\ Record("autosave", 0, "")
  /\ UNCHANGED <<image, annotations, dialogOpen, currentBox, hasUnsavedChanges,
                 selectedAnnotation, undoStack, redoStack, pending,
                 annotationFiles, nMut, issued, quiet, failedSince, storeOf>>

\* handleSave up to its await: the Save button, enabled while the dirty flag
\* is set.  Without an image the handler returns at once.
handleSave ==
  /\ ~dialogOpen
  /\ hasUnsavedChanges
  /\ image # NoImage
  /\ Len(saves) < MaxSaves
  /\ saves' = Append(saves, SaveRequest("manual"))
  /\ failedSince' = FALSE
  /\ Record("save", 0, "")
  /\ UNCHANGED <<image, annotations, dialogOpen, currentBox, hasUnsavedChanges,
                 selectedAnnotation, undoStack, redoStack, pending,
                 annotationFiles, timers, nMut, issued, quiet, sentInQuiet,
                 storeOf>>

\* The file POST /api/annotations/:filename writes: `${baseFilename}.json`,
\* whether or not it exists and whatever the name starts with
annotationPath(filename) == withoutExtension(filename)

\* POST /api/annotations/:filename on the server, for the i-th request in
\* flight: the file of the image is overwritten and the answer is a success;
\* or (ok = FALSE) the request or the write fails and the file is as before.
postAnnotations(i, ok) ==
  /\ i \in DOMAIN saves
  /\ saves[i].status = "sent"
  /\ IF ok
       THEN /\ annotationFiles' =
                 [annotationFiles EXCEPT
                    ![annotationPath(saves[i].filename)] =
                       Some(storedAnnotations(saves[i].body))]
            /\ saves' = [saves EXCEPT ![i].status = "ok"]
       ELSE /\ saves' = [saves EXCEPT ![i].status = "failed"]
            /\ UNCHANGED annotationFiles
  /\ UNCHANGED <<image, annotations, dialogOpen, currentBox, hasUnsavedChanges,
                 selectedAnnotation, undoStack, redoStack, pending, timers,
                 lastOp, pattern, nMut, issued, quiet, sentInQuiet, failedSince,
                 storeOf, server, canvas>>

\* What the two save handlers do after a successful POST:
\* setHasUnsavedChanges(false), which runs the autosave effect when the flag
\* was set.
saveSucceeded ==
  /\ hasUnsavedChanges' = FALSE
  /\ IF hasUnsavedChanges THEN autosaveEffect ELSE UNCHANGED timers
  /\ UNCHANGED failedSince

\* Mutant of saveFailed: the catch block starts another timer.
saveFailed_retries ==
  /\ timers' = Append(timers, AUTOSAVE_DELAY)
  /\ failedSince' = TRUE
  /\ UNCHANGED hasUnsavedChanges

\* What the catch blocks of the two save handlers do to the state: nothing.
saveFailed ==
  /\ failedSince' = TRUE
  /\ UNCHANGED <<hasUnsavedChanges, timers>>

\* saveAnnotations after its await, for the i-th request in flight.  A
\* failure is written to the console.
saveAnnotationsResponse(i) ==
  /\ i \in DOMAIN saves
  /\ saves[i].kind = "auto"
  /\ saves[i].status # "sent"
  /\ saves' = RemoveAt(saves, i)
  /\ IF saves[i].status = "ok"
       THEN saveSucceeded /\ Record("saveDone", 0, "auto")
       ELSE saveFailed /\ Note("saveFailed", 0, "auto", FALSE)
  /\ UNCHANGED <<image, annotations, dialogOpen, currentBox, selectedAnnotation,
                 undoStack, redoStack, pending, annotationFiles, nMut, issued,
                 quiet, sentInQuiet, storeOf>>

\* handleSave after its await, for the i-th request in flight.  A failure is
\* written to the console and shown in the alert 'Failed to save
\* annotations'.
handleSaveResponse(i) ==
  /\ i \in DOMAIN saves
  /\ saves[i].kind = "manual"
  /\ saves[i].status # "sent"
  /\ saves' = RemoveAt(saves, i)
  /\ IF saves[i].status = "ok"
       THEN saveSucceeded /\ Record("saveDone", 0, "manual")
       ELSE saveFailed /\ Note("saveFailed", 0, "manual", TRUE)
  /\ UNCHANGED <<image, annotations, dialogOpen, currentBox, selectedAnnotation,
                 undoStack, redoStack, pending, annotationFiles, nMut, issued,
                 quiet, sentInQuiet, storeOf>>

----------------------------------------------------------------------------
(* The server's endpoints, as any HTTP client can call them *)

\* res.status(status).json(...) or res.download(...): the answer to a
\* request.  valid tells whether the request passed the endpoint's
\* validation.
Respond(endpoint, filename, status, valid, body, files) ==
  response' = [endpoint |-> endpoint, filename |-> filename, status |-> status,
               valid |-> valid, annotations |-> body, artifacts |-> files]

\* What a request to the annotation endpoints is sent for
AnnotationNames == BrowserImages \cup RequestNames

\* The body of a save request: its field annotations is an array, or it is
\* missing or something else.
SaveBodies ==
  { [isArray |-> FALSE, annotations |-> <<>>] } \cup
  { [isArray |-> TRUE, annotations |-> serverAnnotations(migrateAll(file))] :
      file \in InitFiles }

\* GET /api/annotations/:filename
getAnnotationsRequest(filename) ==
  /\ IF getAnnotations(filename) # None
       THEN Respond("getAnnotations", filename, 200, TRUE,
                    getAnnotations(filename), {})
       ELSE Respond("getAnnotations", filename, 404, TRUE, None, {})
  /\ UNCHANGED <<client, canvas, annotationFiles, uploads, exports, customTags,
                 tagRequests, acked>>

\* POST /api/annotations/:filename
postAnnotationsRequest(filename, body) ==
  /\ IF ~body.isArray
       THEN /\ Respond("postAnnotations", filename, 400, FALSE, None, {})
            /\ UNCHANGED annotationFiles
       ELSE /\ annotationFiles' =
                 [annotationFiles EXCEPT
                    ![annotationPath(filename)] =
                       Some(storedAnnotations(body.annotations))]
            /\ Respond("postAnnotations", filename, 200, TRUE, None, {})
  /\ UNCHANGED <<client, canvas, uploads, exports, customTags,
                 tagRequests, acked>>

\* INTERACTION_CATEGORIES and INTERACTION_TYPES of constants.js: the first
\* entry of each, without its gloss
INTERACTION_CATEGORIES == <<"Door">>
INTERACTION_TYPES == <<"open">>

\* The lists of data/custom_tags.json
TagTypes == {"categories", "interaction_types"}

\* What a request can carry as type and as tag
RequestTypes == TagTypes \cup {"colors"}
RequestTags == {"", " ", "Door", "lamp"}

\* The tags of the requests that are handled one at a time
SingleTags == {"", " ", "Door"}

\* tag.trim(), of the tags above
trim(tag) == IF tag = " " THEN "" ELSE tag

\* array.includes(x)
includes(array, x) == \E i \in DOMAIN array : array[i] = x

\* POST /api/custom-tags up to its first await: the validators
\* body('type').isIn([...]) and body('tag').isString().trim().notEmpty()
\* answer 400; otherwise the handler, with the trimmed tag, calls
\* loadCustomTags.
postCustomTag(type, tag) ==
  /\ IF type \notin TagTypes \/ trim(tag) = ""
       THEN /\ Respond("postCustomTag", type, 400, FALSE, None, {})
            /\ UNCHANGED tagRequests
       ELSE /\ tagRequests' = Append(tagRequests,
                                     [type |-> type, tag |-> trim(tag), tags |-> None])
            /\ UNCHANGED response
  /\ UNCHANGED <<client, canvas, annotationFiles, uploads, exports, customTags,
                 acked>>

\* POST /api/custom-tags after await loadCustomTags(), for the i-th request
\* being handled: the file has been read; a tag that is in the list is
\* answered with the list, a new one is pushed onto the list that was read
\* and saveCustomTags is called with it.
postCustomTagLoaded(i) ==
  /\ i \in DOMAIN tagRequests
  /\ tagRequests[i].tags = None
  /\ LET r == tagRequests[i]
     IN IF includes(customTags[r.type], r.tag)
          THEN /\ tagRequests' = RemoveAt(tagRequests, i)
               /\ acked' = acked \cup {<<r.type, r.tag>>}
               /\ Respond("postCustomTag", r.type, 200, TRUE, None, {})
          ELSE /\ tagRequests' =
                    [tagRequests EXCEPT
                       ![i].tags = Some([customTags EXCEPT ![r.type] = Append(@, r.tag)])]
               /\ UNCHANGED <<acked, response>>
  /\ UNCHANGED <<client, canvas, annotationFiles, uploads, exports, customTags>>

\* POST /api/custom-tags after await saveCustomTags(tags), for the i-th
\* request being handled: the file holds the list the handler pushed onto,
\* and the list is the answer.
postCustomTagSaved(i) ==
  /\ i \in DOMAIN tagRequests
  /\ tagRequests[i].tags # None
  /\ customTags' = tagRequests[i].tags[1]
  /\ tagRequests' = RemoveAt(tagRequests, i)
  /\ acked' = acked \cup {<<tagRequests[i].type, tagRequests[i].tag>>}
  /\ Respond("postCustomTag", tagRequests[i].type, 200, TRUE, None, {})
  /\ UNCHANGED <<client, canvas, annotationFiles, uploads, exports>>

\* The file the upload endpoint writes the resized image to:
\* `resized-file-${safeName}`, which the names of the session's images
\* stand for
resizedFilename(originalname) == originalname

\* What an export can be asked for
ExportNames ==
  BrowserImages \cup RequestNames \cup { rawName(f) : f \in UploadNames }

\* POST /api/upload.  isImage: the MIME type of the file starts with 'image/'
\* (fileFilter); decodes: sharp can read the file.  A file that sharp cannot
\* read stays in uploads/ under the name multer gave it.
postUpload(originalname, isImage, decodes) ==
  /\ IF ~isImage
       THEN /\ Respond("postUpload", originalname, 500, FALSE, None, {})
            /\ UNCHANGED <<uploads, annotationFiles>>
       ELSE IF ~decodes
              THEN /\ uploads' = uploads \cup {rawName(originalname)}
                   /\ Respond("postUpload", originalname, 500, TRUE, None, {})
                   /\ UNCHANGED annotationFiles
              ELSE /\ uploads' = uploads \cup {resizedFilename(originalname)}
                   /\ annotationFiles' =
                        IF annotationFiles[resizedFilename(originalname)] = None
                          THEN [annotationFiles EXCEPT
                                  ![resizedFilename(originalname)] = Some(<<>>)]
                          ELSE annotationFiles
                   /\ Respond("postUpload", originalname, 200, TRUE, None, {})
  /\ UNCHANGED <<client, canvas, exports, customTags, tagRequests, acked>>

\* The annotation file an export reads:
\* `${filename.replace(path.extname(filename), '')}.json`
exportKey(filename) == withoutExtension(filename)

\* Mutant of rejectExport: the export directory is made before the request
\* is validated.
rejectExport_afterMkdir ==
  /\ Len(exports) < MaxExports
  /\ exports' = Append(exports, {})
  /\ Respond("postExport", "", 400, FALSE, None, {})

\* POST /api/export without a filename: the validation errors are answered
\* before anything else is done.
rejectExport ==
  /\ Respond("postExport", "", 400, FALSE, None, {})
  /\ UNCHANGED exports

\* POST /api/export.  The request without a filename is answered 400.
\* Otherwise the directory exports/<timestamp> is made and the archive
\* export.zip opened in it; the image is added if it exists; if the
\* annotation file exists, sharp reads the image (and throws if there is
\* none: answer 500, with the directory and the unfinished archive left) and
\* the annotated image and the annotations are added; the archive is sent
\* and the directory removed.  Every export is made in a second of its own.
postExport(filename) ==
  /\ IF filename = None
       THEN rejectExport
       ELSE LET name == filename[1]
                imageExists == name \in uploads
                annotationsExist == annotationFiles[exportKey(name)] # None
            IN IF annotationsExist /\ ~imageExists
                 THEN /\ Len(exports) < MaxExports
                      /\ exports' = Append(exports, {"export.zip"})
                      /\ Respond("postExport", name, 500, TRUE, None, {})
                 ELSE /\ Respond("postExport", name, 200, TRUE, None,
                                 (IF imageExists THEN {"original.png"} ELSE {})
                                 \cup (IF annotationsExist
                                         THEN {"annotated.png", "annotations.json"}
                                         ELSE {}))
                      /\ UNCHANGED exports
  /\ UNCHANGED <<client, canvas, annotationFiles, uploads, customTags,
                 tagRequests, acked>>

\* handleDrop of FileUpload: a file that is no image is refused with an
\* alert and never reaches handleImageUpload.
handleDrop(f, isImage) ==
  IF isImage
    THEN handleImageUpload(f)
    ELSE /\ Note("dropRefused", 0, f, TRUE)
         /\ UNCHANGED <<image, annotations, dialogOpen, currentBox,
                        hasUnsavedChanges, selectedAnnotation, undoStack,
                        redoStack, net, nMut, issued, auto>>

Endpoints ==
  \/ \E f \in AnnotationNames : getAnnotationsRequest(f)
  \/ \E f \in RequestNames, body \in SaveBodies : postAnnotationsRequest(f, body)
  \/ tagRequests = <<>> /\ \E type \in RequestTypes, tag \in SingleTags :
                             postCustomTag(type, tag)
  \/ \E i \in DOMAIN tagRequests : postCustomTagLoaded(i)
  \/ \E i \in DOMAIN tagRequests : postCustomTagSaved(i)
  \/ \E f \in UploadNames, isImage \in BOOLEAN, decodes \in BOOLEAN :
       postUpload(f, isImage, decodes)
  \/ \E filename \in {None} \cup { Some(f) : f \in ExportNames } :
       postExport(filename)

NextServer ==
  \/ Endpoints
  \/ \E f \in UploadNames, isImage \in BOOLEAN : handleDrop(f, isImage)

SpecServer == Init /\ [][NextServer]_vars

\* The custom-tag endpoint alone, with up to MaxTagRequests requests being
\* handled at once: the handlers interleave at their awaits.
NextTags ==
  \/ /\ Len(tagRequests) < MaxTagRequests
     /\ \E type \in RequestTypes, tag \in RequestTags : postCustomTag(type, tag)
  \/ \E i \in DOMAIN tagRequests : postCustomTagLoaded(i)
  \/ \E i \in DOMAIN tagRequests : postCustomTagSaved(i)

SpecTags == Init /\ [][NextTags]_vars

----------------------------------------------------------------------------
(* AnnotationCanvas: the size of the stage and the drawing of a rectangle *)

\* Sizes of the element 'canvas-container' and of the image
ContainerSizes == [width : {300, 400, 1000, 1600}, height : {300, 400, 700, 1200}]
ImageSizes == [width : {200, 800, 1200}, height : {400, 600}]

\* The sizes the rectangles are drawn with
DrawingContainers == { [width |-> 400, height |-> 300],
                       [width |-> 1000, height |-> 700] }
DrawingImages == { [width |-> 800, height |-> 600] }

\* Pointer positions on the stage, in screen pixels
ScreenPoints == { [x |-> 100, y |-> 100], [x |-> 300, y |-> 250],
                  [x |-> 105, y |-> 106] }

\* Math.min and Math.abs
Min(a, b) == IF a <= b THEN a ELSE b
Abs(a) == IF a < 0 THEN -a ELSE a
minFrac(a, b) == IF FracLeq(a, b) THEN a ELSE b

\* n * f, of a whole number and a quotient
Times(n, f) == Frac(n * f.num, f.den)

\* Mutant of newScale: the scale is not capped at 1.
newScale_uncapped(containerSize, img) ==
  minFrac(Frac(containerSize.width, img.width),
          Frac(containerSize.height, img.height))

\* updateSize: Math.min(scaleX, scaleY, 1)
newScale(containerSize, img) ==
  LET scaleX == Frac(containerSize.width, img.width)
      scaleY == Frac(containerSize.height, img.height)
  IN minFrac(minFrac(scaleX, scaleY), Frac(1, 1))

\* updateSize, with the container as it is measured and the image as the
\* effect holds it: nothing is set while the image is not loaded.
updateSize(containerSize, img) ==
  IF img # None
    THEN /\ scale' = newScale(containerSize, img[1])
         /\ stageSize' =
              [width |-> Times(img[1].width, newScale(containerSize, img[1])),
               height |-> Times(img[1].height, newScale(containerSize, img[1]))]
    ELSE UNCHANGED <<scale, stageSize>>

\* useImage has loaded the image: the effect with the dependency [imageObj]
\* runs updateSize.
imageLoaded(size) ==
  /\ image # NoImage
  /\ imageObj = None
  /\ imageObj' = Some(size)
  /\ updateSize(container, Some(size))
  /\ UNCHANGED <<client, annotationFiles, server, container, isDrawing,
                 isResizing, startPoint, draftBox, pointer, emitted>>

\* The 'resize' event of the window: the listener the effect registered runs
\* updateSize.
windowResize(size) ==
  /\ image # NoImage
  /\ container' = size
  /\ updateSize(size, imageObj)
  /\ UNCHANGED <<client, annotationFiles, server, imageObj, isDrawing,
                 isResizing, startPoint, draftBox, pointer, emitted>>

\* The pointer is on the stage, which has the size stageSize.
onStage(pos) ==
  /\ FracLeq(Frac(pos.x, 1), stageSize.width)
  /\ FracLeq(Frac(pos.y, 1), stageSize.height)

\* The positions explored: those whose image-space coordinates are whole
whole(pos) ==
  /\ (pos.x * scale.den) % scale.num = 0
  /\ (pos.y * scale.den) % scale.num = 0

\* Mutant of toImage: the position is multiplied by the scale.
toImage_multiplies(p, s) == (p * s.num) \div s.den

\* pos.x / scale, pos.y / scale: a position in unscaled coordinates
toImage(p, s) == (p * s.den) \div s.num

\* What pointer records of a drag: where it started and where the pointer
\* was last, on the screen, with the scale at both times
Drag(from, fromScale, to) ==
  Some([from |-> from, fromScale |-> fromScale, to |-> to, toScale |-> scale])

\* handleMouseDown, with the pointer at pos on the rectangle of the hit-th
\* record of the store, or on the stage or the image (hit = 0).  Nothing
\* happens while a rectangle is being resized; a rectangle selects the
\* first record with its id; the stage and the image deselect and start a
\* draft.
handleMouseDown(pos, hit) ==
  /\ CanvasUsable
  /\ imageObj # None
  /\ onStage(pos)
  /\ whole(pos)
  /\ hit \in {0} \cup DOMAIN annotations
  /\ IF isResizing
       THEN UNCHANGED <<selectedAnnotation, canvas>>
       ELSE IF hit # 0
              THEN /\ selectedAnnotation' =
                        findById(annotations, annotations[hit].bounding_box_id)
                   /\ UNCHANGED canvas
              ELSE /\ selectedAnnotation' = None
                   /\ isDrawing' = TRUE
                   /\ startPoint' = [x |-> toImage(pos.x, scale),
                                      y |-> toImage(pos.y, scale)]
                   /\ draftBox' = Some([x |-> toImage(pos.x, scale),
                                        y |-> toImage(pos.y, scale),
                                        width |-> 0, height |-> 0])
                   /\ pointer' = Drag(pos, scale, pos)
                   /\ emitted' = 0
                   /\ UNCHANGED <<container, imageObj, scale, stageSize,
                                  isResizing>>
  /\ Noted("pointerDown", hit, "", FALSE)
  /\ UNCHANGED <<image, annotations, dialogOpen, currentBox, hasUnsavedChanges,
                 undoStack, redoStack, net, nMut, issued, auto, server>>

\* Mutant of draftRect: the width and the height are signed.
draftRect_signed(start, point) ==
  [x |-> Min(point.x, start.x), y |-> Min(point.y, start.y),
   width |-> point.x - start.x, height |-> point.y - start.y]

\* The rectangle handleMouseMove sets, of the start point and the pointer
draftRect(start, point) ==
  [x |-> Min(point.x, start.x), y |-> Min(point.y, start.y),
   width |-> Abs(point.x - start.x), height |-> Abs(point.y - start.y)]

\* handleMouseMove, with the pointer at pos: nothing unless a rectangle is
\* being drawn
handleMouseMove(pos) ==
  /\ CanvasUsable
  /\ imageObj # None
  /\ onStage(pos)
  /\ whole(pos)
  /\ IF ~isDrawing \/ isResizing
       THEN UNCHANGED <<draftBox, pointer>>
       ELSE /\ draftBox' = Some(draftRect(startPoint,
                                          [x |-> toImage(pos.x, scale),
                                           y |-> toImage(pos.y, scale)]))
            /\ pointer' = Drag(pointer[1].from, pointer[1].fromScale, pos)
  /\ Noted("pointerMove", 0, "", FALSE)
  /\ UNCHANGED <<image, annotations, dialogOpen, currentBox, hasUnsavedChanges,
                 selectedAnnotation, undoStack, redoStack, net, nMut, issued,
                 auto, server, container, imageObj, scale, stageSize, isDrawing,
                 isResizing, startPoint, emitted>>

\* Mutant of largeEnough: a side of 5 pixels is enough.
largeEnough_inclusive(box) ==
  box # None /\ box[1].width >= 5 /\ box[1].height >= 5

\* currentBox && currentBox.width > 5 && currentBox.height > 5
largeEnough(box) ==
  box # None /\ box[1].width > 5 /\ box[1].height > 5

\* handleMouseUp: nothing unless a rectangle is being drawn; a draft that is
\* large enough is handed to onAnnotationComplete, which is
\* handleAnnotationComplete of App (setCurrentBox(box); setDialogOpen(true)).
handleMouseUp ==
  /\ CanvasUsable
  /\ imageObj # None
  /\ IF ~isDrawing \/ isResizing
       THEN /\ UNCHANGED <<isDrawing, draftBox, emitted, currentBox, dialogOpen>>
            /\ Noted("other", 0, "", FALSE)
       ELSE /\ isDrawing' = FALSE
            /\ Noted("pointerUp", 0, "", FALSE)
            /\ IF largeEnough(draftBox)
                 THEN /\ currentBox' = draftBox
                      /\ dialogOpen' = TRUE
                      /\ emitted' = emitted + 1
                 ELSE UNCHANGED <<currentBox, dialogOpen, emitted>>
            /\ draftBox' = None
  /\ UNCHANGED <<image, annotations, hasUnsavedChanges, selectedAnnotation,
                 undoStack, redoStack, net, nMut, issued, auto, server,
                 container, imageObj, scale, stageSize, isResizing, startPoint,
                 pointer>>

Drawing ==
  \/ \E pos \in ScreenPoints, hit \in DOMAIN annotations : handleMouseDown(pos, hit)
  \/ \E pos \in ScreenPoints : handleMouseDown(pos, 0)
  \/ \E pos \in ScreenPoints : handleMouseMove(pos)
  \/ handleMouseUp

\* One image session on the canvas: the image is selected and loads, the
\* window is resized at any time, rectangles are drawn and the metadata
\* form is closed.
NextDrag ==
  \/ image = NoImage /\ pending = {} /\ \E f \in BrowserImages : handleImageSelect(f)
  \/ \E p \in pending : handleImageSelectResponse(p, TRUE)
  \/ \E size \in DrawingImages : imageLoaded(size)
  \/ \E size \in DrawingContainers : windowResize(size)
  \/ Drawing
  \/ dialogClose

SpecDrag == Init /\ [][NextDrag]_vars

\* The same with MaxDrafts rectangles submitted, and the window resized
\* between the drags only.
NextCanvas ==
  \/ image = NoImage /\ pending = {} /\ \E f \in BrowserImages : handleImageSelect(f)
  \/ \E p \in pending : handleImageSelectResponse(p, TRUE)
  \/ \E size \in DrawingImages : imageLoaded(size)
  \/ ~isDrawing /\ \E size \in DrawingContainers : windowResize(size)
  \/ Drawing
  \/ dialogClose
  \/ nMut < MaxDrafts /\ \E metadata \in Metas : handleAnnotationSave(metadata)

SpecCanvas == Init /\ [][NextCanvas]_vars

\* The size of the stage alone: the image is selected and loads, in any of
\* the sizes, and the window is resized to any of the sizes.
NextScale ==
  \/ image = NoImage /\ pending = {} /\ \E f \in BrowserImages : handleImageSelect(f)
  \/ \E p \in pending : handleImageSelectResponse(p, TRUE)
  \/ \E size \in ImageSizes : imageLoaded(size)
  \/ \E size \in ContainerSizes : windowResize(size)

SpecScale == Init /\ [][NextScale]_vars

----------------------------------------------------------------------------
(* Specification *)

\* Pointer events on the canvas and the metadata form
Pointer ==
  \/ \E i \in DOMAIN annotations :
       handleAnnotationSelect(findById(annotations, annotations[i].bounding_box_id))
  \/ handleAnnotationSelect(None)
  \/ \E box \in Boxes : handleAnnotationComplete(box)
  \/ dialogClose

\* Requests for an image
Requests ==
  \/ Cardinality(pending) < MaxPending /\ \E f \in BrowserImages : handleImageSelect(f)
  \/ Cardinality(pending) < MaxPending /\ \E f \in UploadNames : handleImageUpload(f)

\* Continuations of the asynchronous handlers
Responses ==
  \/ \E p \in pending, ok \in BOOLEAN : handleImageSelectResponse(p, ok)
  \/ \E p \in pending, ok \in BOOLEAN : handleImageUploadResponse(p, ok)
  \/ \E p \in pending, ok \in BOOLEAN : handleImageUploadAnnotations(p, ok)

Mutation ==
  \/ \E metadata \in Metas : handleAnnotationSave(metadata)
  \/ handleAnnotationDelete
  \/ \E value \in TagLists : handleInteractionTypesChange(value)
  \/ \E value \in CategoryLists : handleCategoriesChange(value)
  \/ \E checked \in Checked : handleIsInteractiveChange(checked)
  \/ \E value \in NoteTexts : handleNotesChange(value)
  \/ \E node \in SelectedNodes, newX \in Positions :
       handleDragEnd(node, newX, newX)
  \/ \E node \in SelectedNodes, newX \in Positions, newWidth \in Sizes :
       handleTransformEnd(node, newX, newX, newWidth, newWidth)

History ==
  \/ handleUndo
  \/ handleRedo

\* The whole client: any number of images, MaxMutations mutations.
Next ==
  \/ Pointer
  \/ loadNewImage
  \/ Requests
  \/ Responses
  \/ nMut < MaxMutations /\ Mutation
  \/ History

Spec == Init /\ [][Next]_vars

\* One editing session: the first image that is requested is the only one,
\* and MaxEdits mutations are made on it.
NextEdit ==
  \/ Pointer
  \/ image = NoImage /\ pending = {} /\ Requests
  \/ Responses
  \/ nMut < MaxEdits /\ Mutation
  \/ History

SpecEdit == Init /\ [][NextEdit]_vars

\* One editing session on an uploaded image, whose store starts empty, with
\* adds and deletes only.
NextIds ==
  \/ Pointer
  \/ image = NoImage /\ pending = {} /\ \E f \in UploadNames : handleImageUpload(f)
  \/ \E p \in pending, ok \in BOOLEAN : handleImageUploadResponse(p, ok)
  \/ \E p \in pending, ok \in BOOLEAN : handleImageUploadAnnotations(p, ok)
  \/ nMut < MaxIdMutations /\ \E metadata \in Metas : handleAnnotationSave(metadata)
  \/ nMut < MaxIdMutations /\ handleAnnotationDelete
  \/ History

SpecIds == Init /\ [][NextIds]_vars

\* One long editing session: an image is uploaded, one annotation is added
\* and selected, and its notes are then edited again and again, each edit
\* giving the text that follows the one in the store; undo and redo at any
\* time.
NextCap ==
  \/ image = NoImage /\ pending = {} /\ \E f \in UploadNames : handleImageUpload(f)
  \/ \E p \in pending : handleImageUploadResponse(p, TRUE)
  \/ \E p \in pending : handleImageUploadAnnotations(p, TRUE)
  \/ nMut = 0 /\ \E box \in Boxes : handleAnnotationComplete(box)
  \/ nMut = 0 /\ \E metadata \in Metas : handleAnnotationSave(metadata)
  \/ /\ selectedAnnotation = None
     /\ Len(annotations) = 1
     /\ handleAnnotationSelect(findById(annotations, annotations[1].bounding_box_id))
  \/ /\ nMut < CapMutations
     /\ Len(annotations) = 1
     /\ handleNotesChange(annotations[1].notes + 1)
  \/ History

SpecCap == Init /\ [][NextCap]_vars

\* Timers, save requests, the server's handling of them and their answers
Saving ==
  \/ tick
  \/ saveAnnotations
  \/ handleSave
  \/ \E i \in DOMAIN saves, ok \in BOOLEAN : postAnnotations(i, ok)
  \/ \E i \in DOMAIN saves : saveAnnotationsResponse(i)
  \/ \E i \in DOMAIN saves : handleSaveResponse(i)

\* One editing session with saving: the first image that is requested is
\* the only one; annotations are added, selected, given notes and deleted.
NextSave ==
  \/ image = NoImage /\ pending = {} /\ Requests
  \/ Responses
  \/ \E i \in DOMAIN annotations :
       handleAnnotationSelect(findById(annotations, annotations[i].bounding_box_id))
  \/ \E box \in Boxes : handleAnnotationComplete(box)
  \/ nMut < MaxSaveMutations /\ \E metadata \in Metas : handleAnnotationSave(metadata)
  \/ nMut < MaxSaveMutations /\ \E value \in NoteTexts : handleNotesChange(value)
  \/ nMut < MaxSaveMutations /\ handleAnnotationDelete
  \/ Saving

SpecSave == Init /\ [][NextSave]_vars

\* One editing session with saving, undo and redo: annotations are added.
NextSaveHistory ==
  \/ image = NoImage /\ pending = {} /\ Requests
  \/ Responses
  \/ \E box \in Boxes : handleAnnotationComplete(box)
  \/ nMut < MaxSaveMutations /\ \E metadata \in Metas : handleAnnotationSave(metadata)
  \/ History
  \/ Saving

SpecSaveHistory == Init /\ [][NextSaveHistory]_vars

\* Editing with saving, and going from one image to another at any time.
NextSwitch ==
  \/ pending = {} /\ Requests
  \/ loadNewImage
  \/ Responses
  \/ \E i \in DOMAIN annotations :
       handleAnnotationSelect(findById(annotations, annotations[i].bounding_box_id))
  \/ \E box \in Boxes : handleAnnotationComplete(box)
  \/ nMut < MaxSaveMutations /\ \E metadata \in Metas : handleAnnotationSave(metadata)
  \/ nMut < MaxSaveMutations /\ \E value \in NoteTexts : handleNotesChange(value)
  \/ nMut < MaxSaveMutations /\ handleAnnotationDelete
  \/ Saving

SpecSwitch == Init /\ [][NextSwitch]_vars

\* Loading images whose annotations were left by another version.
NextLoad ==
  \/ Requests
  \/ Responses
  \/ loadNewImage

SpecLoad == InitLegacy /\ [][NextLoad]_vars

\* Image "b" is selected, edited, saved with the Save button and selected
\* again, at any time and any number of times.
NextReload ==
  \/ pending = {} /\ \E f \in BrowserImages : handleImageSelect(f)
  \/ \E p \in pending : handleImageSelectResponse(p, TRUE)
  \/ Pointer
  \/ nMut < MaxReloadEdits /\ Mutation
  \/ handleSave
  \/ \E i \in DOMAIN saves : postAnnotations(i, TRUE)
  \/ \E i \in DOMAIN saves : handleSaveResponse(i)

SpecReload == Init /\ [][NextReload]_vars

\* Rectangles are drawn on the first image that is requested, and the
\* metadata form that opens for each is filled in and saved, or closed.
NextForm ==
  \/ image = NoImage /\ pending = {} /\ Requests
  \/ Responses
  \/ \E box \in Boxes : handleAnnotationComplete(box)
  \/ dialogClose
  \/ nMut < MaxForms /\ \E form \in Forms : AnnotationDialogSave(form)

SpecForm == Init /\ [][NextForm]_vars

\* One session on the canvas of an uploaded image, whose store starts
\* empty: rectangles are drawn and submitted, rectangles are hit, the
\* selected annotation is deleted or resized.
NextPointer ==
  \/ image = NoImage /\ pending = {} /\ \E f \in UploadNames : handleImageUpload(f)
  \/ \E p \in pending : handleImageUploadResponse(p, TRUE)
  \/ \E p \in pending : handleImageUploadAnnotations(p, TRUE)
  \/ \E size \in DrawingImages : imageLoaded(size)
  \/ Drawing
  \/ nMut < MaxPointerEdits /\ \E metadata \in Metas : handleAnnotationSave(metadata)
  \/ nMut < MaxPointerEdits /\ handleAnnotationDelete
  \/ ~isResizing /\ handleTransformStart
  \/ /\ nMut < MaxPointerEdits
     /\ isResizing
     /\ \E node \in SelectedNodes, newX \in Positions, newWidth \in Sizes :
          handleTransformEnd(node, newX, newX, newWidth, newWidth)

SpecPointer == Init /\ [][NextPointer]_vars

\* One session on an uploaded image, whose store starts empty: rectangles
\* of two sizes are added, selected, deleted, moved and resized.
NextBoxes ==
  \/ image = NoImage /\ pending = {} /\ \E f \in UploadNames : handleImageUpload(f)
  \/ \E p \in pending : handleImageUploadResponse(p, TRUE)
  \/ \E p \in pending : handleImageUploadAnnotations(p, TRUE)
  \/ \E box \in TwoBoxes : handleAnnotationComplete(box)
  \/ nMut < MaxBoxEdits /\ \E metadata \in Metas : handleAnnotationSave(metadata)
  \/ \E i \in DOMAIN annotations :
       handleAnnotationSelect(findById(annotations, annotations[i].bounding_box_id))
  \/ nMut < MaxBoxEdits /\ handleAnnotationDelete
  \/ /\ nMut < MaxBoxEdits
     /\ ~isResizing
     /\ \E node \in SelectedNodes, newX \in Positions : handleDragEnd(node, newX, newX)
  \/ ~isResizing /\ handleTransformStart
  \/ /\ nMut < MaxBoxEdits
     /\ isResizing
     /\ \E node \in SelectedNodes, newX \in Positions, size \in SignedSizes :
          handleTransformEnd(node, newX, newX, size, size)

SpecBoxes == Init /\ [][NextBoxes]_vars

\* Going from one image to another with saving, undo and redo; the only
\* mutation is the deletion of the selected annotation.
NextCross ==
  \/ pending = {} /\ Requests
  \/ loadNewImage
  \/ Responses
  \/ \E i \in DOMAIN annotations :
       handleAnnotationSelect(findById(annotations, annotations[i].bounding_box_id))
  \/ nMut < MaxCrossEdits /\ handleAnnotationDelete
  \/ History
  \/ Saving

SpecCross == Init /\ [][NextCross]_vars

\* One editing session on image "b" with a server that accepts every
\* request: the user changes notes and deletes, and presses Save, when they
\* like; time passes, a timer that is due fires, the server handles a
\* request it has received and the client an answer it has received.
NextLive ==
  \/ image = NoImage /\ pending = {} /\ \E f \in BrowserImages : handleImageSelect(f)
  \/ \E p \in pending : handleImageSelectResponse(p, TRUE)
  \/ \E i \in DOMAIN annotations :
       handleAnnotationSelect(findById(annotations, annotations[i].bounding_box_id))
  \/ nMut < MaxLiveEdits /\ \E value \in NoteTexts : handleNotesChange(value)
  \/ nMut < MaxLiveEdits /\ handleAnnotationDelete
  \/ handleSave
  \/ tick
  \/ saveAnnotations
  \/ \E i \in DOMAIN saves : postAnnotations(i, TRUE)
  \/ \E i \in DOMAIN saves : saveAnnotationsResponse(i)
  \/ \E i \in DOMAIN saves : handleSaveResponse(i)

\* The browser's timers, the network and the server make progress; the user
\* is free to do nothing.
FairLive ==
  /\ WF_vars(\E p \in pending : handleImageSelectResponse(p, TRUE))
  /\ WF_vars(tick)
  /\ WF_vars(saveAnnotations)
  /\ WF_vars(\E i \in DOMAIN saves : postAnnotations(i, TRUE))
  /\ WF_vars(\E i \in DOMAIN saves : saveAnnotationsResponse(i))
  /\ WF_vars(\E i \in DOMAIN saves : handleSaveResponse(i))

SpecLive == Init /\ [][NextLive]_vars /\ FairLive

\* The image browser alone, with the images "b" and "d": the user clicks
\* entries, also while the annotations of an earlier click are on their way,
\* and rectangles of the image shown; the answers arrive in any order.
NextRace ==
  \/ Cardinality(pending) < MaxRacing /\ \E f \in uploads : handleImageSelect(f)
  \/ \E p \in pending, ok \in BOOLEAN : handleImageSelectResponse(p, ok)
  \/ \E i \in DOMAIN annotations :
       handleAnnotationSelect(findById(annotations, annotations[i].bounding_box_id))
  \/ handleAnnotationSelect(None)

SpecRace == InitRace /\ [][NextRace]_vars

----------------------------------------------------------------------------
(* Properties *)

Fields == {"bounding_box_id", "coordinates", "categories", "interactionTypes",
           "is_interactive", "notes", "interaction_type", "category"}

\* C1: a mutation (add, update or delete) directly followed by an undo leaves
\* the annotation store equal, record for record and in the same order, to
\* the store before the mutation.
C1_UndoRestoresPreMutation ==
  pattern.phase = "undone" => annotations = pattern.pre

\* C1, its case: two annotations were made, the first was deleted, and the
\* undo brought both back in their order.
C1_Witness ==
  /\ pattern.phase = "undone"
  /\ Len(pattern.pre) = 2
  /\ pattern.post = <<pattern.pre[2]>>
  /\ annotations = pattern.pre

\* C2: a mutation directly followed by an undo and then a redo leaves the
\* annotation store equal to the store right after the mutation.
C2_RedoRestoresPostMutation ==
  pattern.phase = "redone" => annotations = pattern.post

\* C2, its case: the redo of a mutation that changed the store.
C2_Witness ==
  /\ pattern.phase = "redone"
  /\ pattern.pre # pattern.post
  /\ annotations = pattern.post

\* C3: the undo stack and the redo stack hold at most 50 snapshots each in
\* every reachable state, and a push onto a stack that holds 50 drops the
\* oldest snapshot and keeps the 49 newest followed by the pushed one.  (The
\* two stacks together never hold more than 50, so the only push onto a full
\* stack is the one a mutation makes onto the undo stack.)
C3_StacksBounded ==
  /\ [](/\ Len(undoStack) <= MAX_STACK_SIZE
        /\ Len(redoStack) <= MAX_STACK_SIZE
        /\ Len(undoStack) + Len(redoStack) <= MAX_STACK_SIZE)
  /\ [][lastOp'.op \in Mutations /\ Len(undoStack) = MAX_STACK_SIZE
          => undoStack' = Tail(undoStack) \o <<annotations>>]_vars

\* C3, its case: the undo stack is full and the snapshot of the empty store,
\* the oldest one, has been evicted by the push of an update.
C3_Witness ==
  /\ Len(undoStack) = MAX_STACK_SIZE
  /\ lastOp.op = "update"
  /\ undoStack[1] # <<>>
  /\ undoStack[MAX_STACK_SIZE] = pattern.pre

\* C4: right after any mutation (add, update or delete) the redo stack is
\* empty.
C4_MutationClearsRedo ==
  lastOp.op \in Mutations => redoStack = <<>>

\* C4, its case: add, undo, add.  The second mutation found one snapshot on
\* the redo stack (the only mutation before it had been undone) and left
\* none.
C4_Witness ==
  /\ lastOp.op = "add"
  /\ nMut = 2
  /\ Len(undoStack) = 1
  /\ redoStack = <<>>

\* C5: whenever a different image becomes the loaded image, both the undo
\* stack and the redo stack are empty.
C5_LoadResetsHistory ==
  [][image' # image /\ image' # NoImage
       => undoStack' = <<>> /\ redoStack' = <<>>]_vars

\* C6: no two records of the annotation store have the same bounding_box_id.
C6_UniqueIds ==
  \A i, j \in DOMAIN annotations :
    i # j => annotations[i].bounding_box_id # annotations[j].bounding_box_id

\* C7: the number of the id given to a newly added record is strictly
\* greater than the number of every id given out earlier for the image.
C7_IdsStrictlyIncrease ==
  \A i, j \in DOMAIN issued : i < j => issued[i] < issued[j]

\* C8: an update that supplies one field of the record with a given id
\* changes only that field: every other field of that record keeps the value
\* it had in the store, and all other records are unchanged.
C8_UpdateChangesOneField ==
  lastOp.op = "update" =>
    /\ Len(annotations) = Len(pattern.pre)
    /\ \A i \in DOMAIN annotations :
         IF pattern.pre[i].bounding_box_id = lastOp.id
           THEN \A g \in Fields \ {lastOp.field} :
                  annotations[i][g] = pattern.pre[i][g]
           ELSE annotations[i] = pattern.pre[i]

\* C9: an update whose id matches no record of the store is a no-op: the
\* annotation store, the undo stack, the redo stack and the dirty flag are
\* the same after it as before it.
C9_UpdateOfAbsentIdIsNoOp ==
  [][lastOp'.op = "update" /\ findById(annotations, lastOp'.id) = None
       => UNCHANGED <<annotations, undoStack, redoStack, hasUnsavedChanges>>]_vars

\* C10: delete(id) removes the one record whose id matches and nothing else:
\* the store shrinks by at most one record and every other record stays,
\* unchanged and in the same relative order.
C10_DeleteRemovesOne ==
  lastOp.op = "delete" =>
    \/ /\ findById(pattern.pre, lastOp.id) = None
       /\ annotations = pattern.pre
    \/ \E k \in DOMAIN pattern.pre :
         /\ pattern.pre[k].bounding_box_id = lastOp.id
         /\ annotations = RemoveAt(pattern.pre, k)

\* What the server holds for the loaded image is what a save of the store
\* writes.
Persisted ==
  annotationFiles[image] = Some(storedAnnotations(serverAnnotations(annotations)))

\* C11: right after every add, update and delete the dirty flag is set, and
\* an autosave timer is pending only in states in which the dirty flag is
\* set.
C11_MutationSetsDirty ==
  /\ lastOp.op \in Mutations => hasUnsavedChanges
  /\ timers # <<>> => hasUnsavedChanges

\* C11, its case: an annotation was added to an uploaded image and saved,
\* which cleared the flag and left no timer; the update that followed set
\* the flag and a timer again.
C11_Witness ==
  /\ image = "a"
  /\ lastOp.op = "update"
  /\ pattern.pre # <<>>
  /\ annotationFiles[image] = Some(storedAnnotations(serverAnnotations(pattern.pre)))
  /\ hasUnsavedChanges
  /\ timers = <<AUTOSAVE_DELAY>>

\* C12: whenever no save request is outstanding and the dirty flag is not
\* set, the annotations persisted for the loaded image are the ones of the
\* annotation store.
C12_CleanMeansPersisted ==
  image # NoImage /\ saves = <<>> /\ ~hasUnsavedChanges => Persisted

\* This step sends an autosave request.
AutosaveSent ==
  /\ Len(saves') = Len(saves) + 1
  /\ saves'[Len(saves')].kind = "auto"

\* This step is the failure of a save request.
SaveFails ==
  /\ Len(saves') = Len(saves) - 1
  /\ lastOp'.op = "saveFailed"

\* C13: at most one autosave timer is pending at any time; a mutation made
\* while a timer is pending cancels it and sets a new one with the full
\* delay; an autosave request is sent only when AUTOSAVE_DELAY units of time
\* have passed without a change of the store, and at most one is sent per
\* such quiet period.
C13_OneTimerOneAutosave ==
  /\ [](Len(timers) <= 1 /\ sentInQuiet <= 1)
  /\ [][lastOp'.op \in Mutations /\ nMut' # nMut /\ timers # <<>>
          => timers' = <<AUTOSAVE_DELAY>>]_vars
  /\ [][AutosaveSent => quiet = AUTOSAVE_DELAY]_vars

\* C13, its case: two annotations were added to an uploaded image and
\* nothing was saved in between; the autosave request with both is sent when
\* the delay has passed since the second one.
C13_Witness ==
  /\ lastOp.op = "autosave"
  /\ storeOf = "a"
  /\ Len(annotations) = 2
  /\ annotationFiles["a"] = Some(<<>>)
  /\ quiet = AUTOSAVE_DELAY
  /\ sentInQuiet = 1
  /\ timers = <<>>

\* C14: when a save request fails, the annotation store is unchanged and the
\* dirty flag is set afterwards, and no autosave request is sent from then
\* on until the user changes the store or asks for a save.
C14_FailedSaveNoAutomaticSave ==
  /\ [][SaveFails => annotations' = annotations /\ hasUnsavedChanges']_vars
  /\ [][AutosaveSent => ~failedSince]_vars

\* C14 as amended: the failure of a save request changes neither the
\* annotation store nor the dirty flag, sets no timer and sends no request.
C14_FailedSaveChangesNothing ==
  [][SaveFails => UNCHANGED <<annotations, hasUnsavedChanges, timers>>]_vars

\* C14, its case: an autosave request failed; the store is still dirty, no
\* timer is pending and no request is in flight.
C14_Witness ==
  /\ lastOp.op = "saveFailed"
  /\ lastOp.field = "auto"
  /\ annotations # <<>>
  /\ hasUnsavedChanges
  /\ timers = <<>>
  /\ saves = <<>>

\* C15: every failed save, manual or automatic, shows a failure notice to
\* the user.
C15_FailedSaveIsShown ==
  lastOp.op = "saveFailed" => lastOp.alert

\* C16: when an image is loaded and the server has no annotation file for it
\* (the GET answers 404), the image becomes the loaded image, the annotation
\* store is empty, the dirty flag is not set and no failure is shown.
C16_MissingFileLoadsEmpty ==
  lastOp.op = "load404" =>
    /\ image = lastOp.field
    /\ annotations = <<>>
    /\ ~hasUnsavedChanges
    /\ ~lastOp.alert

\* This step replaces the annotation store by the annotations of another
\* image.
StoreReplaced ==
  /\ lastOp'.op \in {"loaded", "load404"}
  /\ storeOf # NoImage
  /\ storeOf' # storeOf

\* The store is what the server holds for the image it was loaded for, or
\* is the body of a save request in flight for that image.
SavedOrBeingSaved ==
  \/ annotationFiles[storeOf] = Some(storedAnnotations(serverAnnotations(annotations)))
  \/ \E i \in DOMAIN saves :
       /\ saves[i].filename = storeOf
       /\ saves[i].body = serverAnnotations(annotations)

\* C17: when the user goes from an image with unsaved mutations to another
\* image, directly or by 'Load New Image', the annotations of the previous
\* image have been saved, or are being saved, when the store is replaced.
C17_SwitchSavesFirst ==
  [][StoreReplaced /\ hasUnsavedChanges => SavedOrBeingSaved]_vars

\* The record has the singular keys of the old format and not the plural.
IsLegacy(r) ==
  /\ r.interaction_type # None
  /\ r.category # None
  /\ r.interactionTypes = None
  /\ r.categories = None

\* The record has the plural keys and not the singular ones.
IsMigrated(r) ==
  /\ r.interaction_type = None
  /\ r.category = None
  /\ r.interactionTypes # None
  /\ r.categories # None

\* Image "b" has just been loaded from its annotation file.
LoadedB ==
  /\ lastOp.op = "loaded"
  /\ lastOp.field = "b"
  /\ annotationFiles["b"] # None

\* C18: the load turns a record with the singular keys interaction_type and
\* category into one whose interactionTypes is the value of interaction_type
\* and whose categories holds the value of category; neither singular key
\* has a value afterwards.
C18_MigrationMovesLegacyFields ==
  LoadedB =>
    \A i \in DOMAIN annotations :
      LET r == annotationFiles["b"][1][i]
      IN IsLegacy(r) =>
           /\ annotations[i].interactionTypes = r.interaction_type[1]
           /\ annotations[i].categories = <<r.category[1]>>
           /\ annotations[i].interaction_type = None
           /\ annotations[i].category = None

\* C19: migration is idempotent: migrating the records a load has migrated
\* gives the same records; and a record that has the plural keys only comes
\* out of the migration with the values it had.
C19_MigrationIdempotent ==
  LoadedB =>
    /\ migrateAll([i \in DOMAIN annotations |-> asArgument(annotations[i])])
         = annotations
    /\ \A i \in DOMAIN annotations :
         LET r == annotationFiles["b"][1][i]
         IN IsMigrated(r) => asArgument(annotations[i]) = r

\* C19, its cases: a record with both interaction_type and interactionTypes
\* was loaded, and a record with the plural keys only was loaded.
C19_Witness ==
  /\ LoadedB
  /\ annotations # <<>>
  /\ \/ /\ annotationFiles["b"][1][1].interaction_type = Some(<<"open">>)
        /\ annotationFiles["b"][1][1].interactionTypes = Some(<<"use">>)
        /\ annotations[1].interactionTypes = <<"open">>
     \/ /\ IsMigrated(annotationFiles["b"][1][1])
        /\ annotations[1].interactionTypes = <<"use">>
        /\ annotations[1].categories = <<"Key">>

\* What a load gives back after a save of the store: the store converted
\* for the server, written by the server's save endpoint, read back and
\* migrated.
SavedAndReloaded(store) ==
  migrateAll(storedAnnotations(serverAnnotations(store)))

\* C20: a save followed by a reload is the identity on the store: the same
\* number of records in the same order, each with the same id, coordinates,
\* categories, interaction types, is_interactive and notes.
C20_SaveReloadIdentity ==
  LET reloaded == SavedAndReloaded(annotations)
  IN /\ Len(reloaded) = Len(annotations)
     /\ \A i \in DOMAIN annotations :
          /\ reloaded[i].bounding_box_id = annotations[i].bounding_box_id
          /\ reloaded[i].coordinates = annotations[i].coordinates
          /\ reloaded[i].categories = annotations[i].categories
          /\ reloaded[i].interactionTypes = annotations[i].interactionTypes
          /\ reloaded[i].is_interactive = annotations[i].is_interactive
          /\ reloaded[i].notes = annotations[i].notes

\* C20, its case: box_1 of image "b" was given interaction types, the store
\* was saved with the Save button and the image was selected again; the
\* load gave the record back with them.
C20_Witness ==
  /\ lastOp.op = "loaded"
  /\ lastOp.field = "b"
  /\ nMut = 1
  /\ Len(annotations) = 1
  /\ annotations[1].interactionTypes = <<"open">>
  /\ Persisted

----------------------------------------------------------------------------
(* The server's endpoints: keys, export, custom tags, validation *)

\* The request the server has just answered
Answered(endpoint) == response' # response /\ response'.endpoint = endpoint

\* The key of the annotation file a request for filename is about: the name
\* without its extension, or without 'resized-' too when no file exists
\* under the former and the name starts with 'resized-'
KeyWithFallback(filename) ==
  IF annotationFiles[withoutExtension(filename)] = None
     /\ startsWithResized(filename)
    THEN withoutExtension(withoutResized(filename))
    ELSE withoutExtension(filename)

\* C21: GET and POST /api/annotations/:filename address the annotation file
\* by the filename without its extension and, when no file exists under
\* that key and the filename starts with 'resized-', by the key without
\* 'resized-': a get answers the content of that file, and 404 only when
\* there is no file under either key; a save writes that file and no other.
C21_KeyWithFallback ==
  [][ /\ Answered("getAnnotations") =>
           /\ response'.annotations =
                annotationFiles[KeyWithFallback(response'.filename)]
           /\ response'.status = 404 <=>
                /\ annotationFiles[withoutExtension(response'.filename)] = None
                /\ annotationFiles[KeyWithFallback(response'.filename)] = None
      /\ Answered("postAnnotations") /\ response'.valid =>
           /\ annotationFiles'[KeyWithFallback(response'.filename)] # None
           /\ \A k \in Keys \ {KeyWithFallback(response'.filename)} :
                annotationFiles'[k] = annotationFiles[k]
    ]_vars

\* C22: an export asked for an image that is not in uploads/ is answered
\* with an error, delivers no archive and leaves no export directory and no
\* archive file on disk.
C22_ExportWithoutImageFails ==
  [][ Answered("postExport") /\ response'.valid
      /\ response'.filename \notin uploads =>
        /\ response'.status >= 400
        /\ response'.artifacts = {}
        /\ exports' = exports
    ]_vars

\* C23: an export that is answered with success delivers the source image,
\* the annotated image and the metadata document, all three.
C23_ExportDeliversThree ==
  response.endpoint = "postExport" /\ response.status = 200 =>
    response.artifacts = {"original.png", "annotated.png", "annotations.json"}

\* The built-in vocabulary of a kind
BuiltIn(type) ==
  IF type = "categories" THEN INTERACTION_CATEGORIES ELSE INTERACTION_TYPES

\* C24: a tag is added to a custom list only if it is in neither the built-in
\* list nor the custom list of its kind, and no custom list ever holds an
\* entry twice or a built-in entry.
C24_CustomTagsClean ==
  /\ [](\A type \in TagTypes :
          /\ \A i, j \in DOMAIN customTags[type] :
               customTags[type][i] = customTags[type][j] => i = j
          /\ \A i \in DOMAIN customTags[type] :
               ~includes(BuiltIn(type), customTags[type][i]))
  /\ [][\A type \in TagTypes :
          customTags'[type] # customTags[type] =>
            LET tag == customTags'[type][Len(customTags'[type])]
            IN /\ ~includes(BuiltIn(type), tag)
               /\ ~includes(customTags[type], tag)]_vars

\* C25: a request that fails validation (an upload that is no image, a save
\* whose annotations are no array, a custom tag of an unknown type or empty,
\* an export without a filename), and a dropped file the client refuses,
\* changes no file on the server and neither the store, the history nor the
\* dirty flag of the client.
C25_RejectedChangesNothing ==
  [][ \/ response' # response /\ ~response'.valid
      \/ lastOp' # lastOp /\ lastOp'.op = "dropRefused"
      => UNCHANGED <<uploads, annotationFiles, exports, customTags,
                     annotations, undoStack, redoStack, hasUnsavedChanges>>
    ]_vars

\* Each kind of request has been refused at least once, the last one after
\* requests that changed the files of the server.
C25_Witness ==
  /\ ~response.valid
  /\ response.endpoint = "postExport"
  /\ lastOp.op = "dropRefused"
  /\ annotationFiles["c"] # None
  /\ customTags.categories # <<>>
  /\ "a" \in uploads

----------------------------------------------------------------------------
(* Undo and redo with nothing to restore *)

\* C26: undo with an empty undo stack and redo with an empty redo stack
\* change neither the annotation store, nor a stack, nor the dirty flag.
C26_EmptyUndoRedoIsNoOp ==
  [][ lastOp' # lastOp /\ lastOp'.op \in {"undoEmpty", "redoEmpty"} =>
        UNCHANGED <<annotations, undoStack, redoStack, hasUnsavedChanges>>
    ]_vars

\* Undo was asked for right after an image with annotations was loaded:
\* the undo stack is empty, the store is not, and the dirty flag is clear.
C26_Witness ==
  /\ lastOp.op = "undoEmpty"
  /\ undoStack = <<>>
  /\ annotations # <<>>
  /\ image # NoImage
  /\ ~hasUnsavedChanges

----------------------------------------------------------------------------
(* The canvas: draft rectangle, pointer-up, scale *)

\* Where the pointer was last in the current drag, in image space
LastPoint ==
  [x |-> toImage(pointer[1].to.x, pointer[1].toScale),
   y |-> toImage(pointer[1].to.y, pointer[1].toScale)]

\* C27: while a rectangle is drawn, the draft has the smaller of the two x
\* values and of the two y values of start point and current point, a width
\* and a height that are not negative, and is the rectangle that the two
\* points give in the other order.
C27_DraftIsNormalised ==
  isDrawing =>
    /\ draftBox # None
    /\ draftBox[1].x = Min(startPoint.x, LastPoint.x)
    /\ draftBox[1].y = Min(startPoint.y, LastPoint.y)
    /\ draftBox[1].width >= 0
    /\ draftBox[1].height >= 0
    /\ draftBox[1] = draftRect(LastPoint, startPoint)

\* A drag to the left and upwards, with a draft that has an area
C27_Witness ==
  /\ isDrawing
  /\ LastPoint.x < startPoint.x
  /\ LastPoint.y < startPoint.y
  /\ draftBox[1].width > 0
  /\ draftBox[1].height > 0

\* C28: the pointer-up that ends a drag hands the draft to the caller
\* exactly when its width and its height are both greater than 5; either way
\* the canvas is neither drawing nor holds a draft afterwards, and no drag
\* hands over more than one draft.
C28_EmitExactlyWhenLargeEnough ==
  /\ [][ isDrawing /\ lastOp'.op = "pointerUp" /\ lastOp.op # "pointerUp" =>
           /\ ~isDrawing'
           /\ draftBox' = None
           /\ IF draftBox[1].width > 5 /\ draftBox[1].height > 5
                THEN /\ emitted' = emitted + 1
                     /\ currentBox' = draftBox
                     /\ dialogOpen'
                ELSE /\ emitted' = emitted
                     /\ UNCHANGED <<currentBox, dialogOpen>>
       ]_vars
  /\ [](emitted <= 1)

\* A drag whose draft was 5 wide and more than 5 high has ended, and nothing
\* was handed over.
C28_Witness ==
  /\ lastOp.op = "pointerUp"
  /\ ~isDrawing
  /\ draftBox = None
  /\ emitted = 0
  /\ ~dialogOpen
  /\ Abs(LastPoint.x - startPoint.x) = 5
  /\ Abs(LastPoint.y - startPoint.y) > 5

\* The example: the sizes, the scale and the two screen points
ExampleImage == [width |-> 800, height |-> 600]
ExampleContainer == [width |-> 400, height |-> 300]
ExampleDrag ==
  /\ pointer # None
  /\ pointer[1].from = [x |-> 100, y |-> 100]
  /\ pointer[1].to = [x |-> 300, y |-> 250]
  /\ FracEq(pointer[1].fromScale, Frac(1, 2))
  /\ FracEq(pointer[1].toScale, Frac(1, 2))

\* C29: with an image of 800x600 in a container of 400x300 the scale is 0.5,
\* and submitting the metadata form after a drag from (100,100) to (300,250)
\* at that scale adds exactly one record, with the coordinates
\* [200,200,600,500].
C29_Example ==
  /\ [](imageObj = Some(ExampleImage) /\ container = ExampleContainer =>
          FracEq(scale, Frac(1, 2)))
  /\ [][ lastOp'.op = "add" /\ nMut' # nMut /\ ExampleDrag =>
           /\ Len(annotations') = Len(annotations) + 1
           /\ SubSeq(annotations', 1, Len(annotations)) = annotations
           /\ annotations'[Len(annotations')].coordinates = <<200, 200, 600, 500>>
       ]_vars

\* The record of the example has been added.
C29_Witness ==
  /\ lastOp.op = "add"
  /\ ExampleDrag
  /\ annotations # <<>>
  /\ annotations[Len(annotations)].coordinates = <<200, 200, 600, 500>>

\* C30: once the image is loaded the scale is the least of
\* containerWidth / imageWidth, containerHeight / imageHeight and 1: it is
\* at most 1, and the image at that scale, which is the stage, is neither
\* wider nor higher than the container.
C30_ScaleFits ==
  imageObj # None =>
    LET scaleX == Frac(container.width, imageObj[1].width)
        scaleY == Frac(container.height, imageObj[1].height)
    IN /\ FracLeq(scale, scaleX)
       /\ FracLeq(scale, scaleY)
       /\ FracLeq(scale, Frac(1, 1))
       /\ FracEq(scale, scaleX) \/ FracEq(scale, scaleY) \/ FracEq(scale, Frac(1, 1))
       /\ FracEq(stageSize.width, Times(imageObj[1].width, scale))
       /\ FracEq(stageSize.height, Times(imageObj[1].height, scale))
       /\ FracLeq(stageSize.width, Frac(container.width, 1))
       /\ FracLeq(stageSize.height, Frac(container.height, 1))

\* The image is higher than the container and the height alone decides the
\* scale.
C30_Witness ==
  /\ imageObj # None
  /\ FracEq(scale, Frac(container.height, imageObj[1].height))
  /\ ~FracEq(scale, Frac(container.width, imageObj[1].width))
  /\ ~FracLeq(Frac(1, 1), scale)
  /\ FracLeq(stageSize.height, Frac(container.height, 1))

\* This step is an undo that found a snapshot: only an undo shortens the
\* undo stack.
UndoStep == Len(undoStack') = Len(undoStack) - 1

\* This step is a redo that found a snapshot: a mutation, which clears the
\* redo stack, counts in nMut.
RedoStep == Len(redoStack') = Len(redoStack) - 1 /\ nMut' = nMut

\* C38: an undo or a redo that changes the annotation store sets the dirty
\* flag and the autosave timer with it, and every save request, sent by the
\* timer or by the Save button, carries the store and the image as they are
\* when it is sent: the restored store, when nothing changed it since.
C38_HistoryMarksDirty ==
  /\ [][(UndoStep \/ RedoStep) /\ annotations' # annotations
          => hasUnsavedChanges' /\ timers' = <<AUTOSAVE_DELAY>>]_vars
  /\ [][Len(saves') = Len(saves) + 1
          => /\ saves'[Len(saves')].body = serverAnnotations(annotations)
             /\ saves'[Len(saves')].filename = image]_vars

\* C38, its case: an annotation was added to image "b" and saved, which
\* cleared the flag; an undo then took it from the store and set the flag,
\* and the autosave timer it set is due.
C38_Witness ==
  /\ image = "b"
  /\ redoStack # <<>>
  /\ Len(annotations) = 1
  /\ annotationFiles["b"] # None
  /\ Len(annotationFiles["b"][1]) = 2
  /\ hasUnsavedChanges
  /\ timers = <<0>>
  /\ saves = <<>>

\* C37: in every state the selected annotation is null or is equal, field
\* for field, to the record of the store that has its id.
C37_SelectionIsCurrent ==
  selectedAnnotation # None =>
    findById(annotations, selectedAnnotation[1].bounding_box_id) = selectedAnnotation

\* C34: every record the Save button of the metadata form adds to the store
\* has at least one category and, when it is interactive, at least one
\* interaction type.
C34_FormRecordsAreComplete ==
  [][lastOp'.op = "add" /\ nMut' = nMut + 1
       => LET added == annotations'[Len(annotations')]
          IN /\ Len(annotations') = Len(annotations) + 1
             /\ added.categories # <<>>
             /\ added.is_interactive => added.interactionTypes # <<>>]_vars

\* C34, its case: a form with a category, the interactive switch set and an
\* interaction type was saved after a form that was not interactive.
C34_Witness ==
  /\ lastOp.op = "add"
  /\ Len(annotations) >= 2
  /\ annotations[Len(annotations)].is_interactive
  /\ annotations[Len(annotations)].interactionTypes = <<"open">>
  /\ annotations[Len(annotations)].categories = <<"Door">>
  /\ ~annotations[Len(annotations) - 1].is_interactive

\* This step is a pointer-down on the canvas that follows another event.
PointerDown == lastOp'.op = "pointerDown" /\ lastOp.op # "pointerDown"

\* C31: a pointer-down received while a rectangle is being drawn is
\* ignored: the start point and the draft rectangle are after it as they
\* were before it.
C31_ReentrantDownIgnored ==
  [][isDrawing /\ PointerDown => UNCHANGED <<startPoint, draftBox>>]_vars

\* C32: a pointer-down on the rectangle of a record of the store selects
\* that record and starts no drag; a drag starts only by a pointer-down on
\* the stage or the image, and only while no rectangle is being resized.
C32_RectSelectsStageDraws ==
  /\ [][PointerDown /\ lastOp'.id > 0
          => /\ selectedAnnotation' = Some(annotations[lastOp'.id])
             /\ UNCHANGED <<isDrawing, startPoint, draftBox>>]_vars
  /\ [][~isDrawing /\ isDrawing'
          => lastOp'.op = "pointerDown" /\ lastOp'.id = 0 /\ ~isResizing]_vars

\* x_min <= x_max and y_min <= y_max
Ordered(r) ==
  r.coordinates[1] <= r.coordinates[3] /\ r.coordinates[2] <= r.coordinates[4]

\* This step is the end of a move: the coordinates are updated while no
\* resize is in progress.
MoveEnds ==
  /\ nMut' = nMut + 1
  /\ lastOp'.op = "update"
  /\ lastOp'.field = "coordinates"
  /\ ~isResizing

\* Every record an add or an update puts into the store is ordered.
OrderedOnEntry ==
  [][nMut' = nMut + 1 /\ lastOp'.op \in {"add", "update"}
       => \A i \in DOMAIN annotations' :
            (i \notin DOMAIN annotations \/ annotations'[i] # annotations[i])
              => Ordered(annotations'[i])]_vars

\* C33: every record that an add, the end of a resize or the end of a move
\* puts into the store has x_min <= x_max and y_min <= y_max, and the end of
\* a move leaves the width and the height of every rectangle as they were.
C33_OrderedAndMoveKeepsSize ==
  /\ OrderedOnEntry
  /\ [][MoveEnds
          => \A i \in DOMAIN annotations :
               /\ annotations'[i].coordinates[3] - annotations'[i].coordinates[1]
                    = annotations[i].coordinates[3] - annotations[i].coordinates[1]
               /\ annotations'[i].coordinates[4] - annotations'[i].coordinates[2]
                    = annotations[i].coordinates[4] - annotations[i].coordinates[2]]_vars

\* The records the server holds for the image with key k when the client is
\* opened
RecordsAtStart(k) ==
  IF k \in BrowserImages
    THEN UNION { { file[i] : i \in DOMAIN file } : file \in InitFiles }
    ELSE {}

\* C36: the annotation file of an image only ever holds records that were
\* loaded for that image or added or edited while it was the current image.
\* Where records are only deleted, never added or edited, these are records
\* the file of that image held at the start.
C36_NoRecordsOfAnotherImage ==
  \A k \in Keys :
    annotationFiles[k] # None =>
      \A i \in DOMAIN annotationFiles[k][1] :
        annotationFiles[k][1][i] \in RecordsAtStart(k)

\* C35: with timers, network and server that make progress and a server
\* that accepts every save, once an image is loaded and the user has made
\* their last mutation, the annotations persisted for the image eventually
\* are those of the store, with the dirty flag not set, and stay so,
\* whatever saves were in flight when the mutation was made.
C35_EventuallyPersisted ==
  <>[](image # NoImage => Persisted /\ ~hasUnsavedChanges)

\* C39: when the custom-tag requests that were being handled have all been
\* answered, the custom vocabulary on file contains both tags of every two
\* requests with different tags that were answered with success, whether
\* they were handled one after the other or at the same time.
C39_NoLostTag ==
  tagRequests = <<>> =>
    \A a, b \in acked :
      a[2] # b[2] => /\ includes(customTags[a[1]], a[2])
                     /\ includes(customTags[b[1]], b[2])

\* C40: the user has selected one image and, before its annotations
\* arrived, another.  When the answer for the first is handled last, it is
\* ignored: the image and the store stay those of the second, which the
\* answer handled just before had loaded.  When the answer for the second
\* is handled last and loads, the image and the store are those of the
\* second.
C40_SupersededLoadIgnored ==
  /\ [][\A p \in pending :
          /\ pending = {p}
          /\ pending' = {}
          /\ p.kind = "select"
          /\ p.after = {}
          /\ lastOp.op = "loaded"
          /\ lastOp.field # p.filename
          => image' = lastOp.field /\ annotations' = annotations]_vars
  /\ [][\A p \in pending :
          /\ pending = {p}
          /\ pending' = {}
          /\ p.kind = "select"
          /\ p.after # {}
          /\ lastOp'.op = "loaded"
          => /\ image' = p.filename
             /\ annotations' = migrateAll(getAnnotations(p.filename)[1])]_vars

====
